---- MODULE Spec2Model ----
(***************************************************************************)
(* Splinter (umd-dslam/splinter): the classified model (AnalyzeResult),    *)
(* the Django and TypeORM resolvers, the analyzer process life cycle, the  *)
(* move primitives, the annotation engine and the persistence codec.       *)
(*                                                                         *)
(* Strings are modelled as sequences of atoms (a fixed tokenisation: two   *)
(* strings are equal iff their atom sequences are equal), so that the      *)
(* string operations of the code (regular expressions, split, indexOf,     *)
(* endsWith) are computed rather than assumed.  An optional value is a     *)
(* record [def, v]; `undefined` is [def |-> FALSE] with a default v.       *)
(***************************************************************************)
EXTENDS Integers, Sequences, FiniteSets, TLC

VARIABLES
    group,          \* AnalyzeResult.group: group name -> Map<string, Entity> (insertion order)
    entityHeap,     \* the Entity objects, by identity
    operationHeap,  \* the Operation objects, by identity
    argumentHeap,   \* the Argument objects, by identity
    orm,            \* which analyzer the extension built: "django" or "typeorm"
    messages,       \* output.messages of the extractor run being merged
    proc,           \* Analyzer.proc: 0 is null, otherwise the tracked process
    processes,      \* the extractor processes spawned so far
    runs,           \* the analyze() invocations: their promise and close-handler position
    file,           \* the persisted result file: absent, or its serialized text
    writes,         \* the buffers of the writeFile calls that have not completed
    steps           \* the steps of a running splinter.recognizeUnknownAggressively

modelVars == <<group, entityHeap, operationHeap, argumentHeap>>
vars == <<group, entityHeap, operationHeap, argumentHeap, orm, messages,
          proc, processes, runs, file, writes, steps>>

-----------------------------------------------------------------------------
(* Bounds of the model *)

MaxMessages == 4
MaxOperations == 4
MaxArguments == 4
MaxLocators == 2
MaxCalls == 2
MaxNote == 18
MaxManualTags == 1
MaxRuns == 3

-----------------------------------------------------------------------------
(* Optional values and sequences *)

Some(x) == [def |-> TRUE, v |-> x]
UndefinedString == [def |-> FALSE, v |-> <<>>]
UndefinedNumber == [def |-> FALSE, v |-> 0]

Range(s) == {s[i] : i \in 1..Len(s)}

\* Array.prototype.splice(index, 1): nothing is removed when index >= length
Splice(s, index) ==
    IF index + 1 > Len(s) THEN s
    ELSE SubSeq(s, 1, index) \o SubSeq(s, index + 2, Len(s))

\* positions of atom a in string s
Positions(s, a) == {i \in 1..Len(s) : s[i] = a}

Min(S) == CHOOSE x \in S : \A y \in S : x <= y
Max(S) == CHOOSE x \in S : \A y \in S : x >= y

\* String.prototype.split(sep) for a separator that is one atom
RECURSIVE SplitOn(_, _)
SplitOn(s, sep) ==
    IF Positions(s, sep) = {} THEN <<s>>
    ELSE LET i == Min(Positions(s, sep))
         IN <<SubSeq(s, 1, i - 1)>> \o SplitOn(SubSeq(s, i + 1, Len(s)), sep)

\* atoms that consist of word characters only (\w)
WordAtoms == {"app", "lib", "Foo", "Bar", "Entity", "Manager", "Base", "Filter",
              "Repository", "SelectQueryBuilder", "Any", "FilterSet", "all",
              "filter", "x", "repo", "QueryRunner", "Connection", "DataSource", "My"}

\* /(\w+)<suffix>$/ : the string ends in the atom `suffix`, preceded by at least
\* one word character; the group is the longest run of word characters before it
WordBeforeSuffix(s, suffix) ==
    IF Len(s) >= 2 /\ s[Len(s)] = suffix /\ s[Len(s) - 1] \in WordAtoms
    THEN LET n == Len(s) - 1
             start == Min({i \in 1..n : \A j \in i..n : s[j] \in WordAtoms})
         IN Some(SubSeq(s, start, n))
    ELSE UndefinedString

\* /<prefix><open>(.*)<close>/ : unanchored, leftmost prefix, greedy group
Enclosed(s, prefix, open, close) ==
    LET n == Len(prefix)
        starts == {i \in 1..Len(s) : /\ i + n <= Len(s)
                                     /\ SubSeq(s, i, i + n - 1) = prefix
                                     /\ s[i + n] = open
                                     /\ \E j \in (i + n + 1)..Len(s) : s[j] = close}
    IN IF starts = {} THEN UndefinedString
       ELSE LET i == Min(starts)
                j == Max({k \in (i + n + 1)..Len(s) : s[k] = close})
            IN Some(SubSeq(s, i + n + 1, j - 1))

-----------------------------------------------------------------------------
(* The data model: src/src/model.ts *)

Recognized == "Recognized"
Unknown == "Unknown"

UndefinedSelection ==
    [def |-> FALSE, filePath |-> <<>>, fromLine |-> 0, fromColumn |-> 0,
     toLine |-> 0, toColumn |-> 0]

Selection(filePath, fromLine, fromColumn, toLine, toColumn) ==
    [def |-> TRUE, filePath |-> filePath, fromLine |-> fromLine,
     fromColumn |-> fromColumn, toLine |-> toLine, toColumn |-> toColumn]

Entity(selection, name, isCustom) ==
    [selection |-> selection, name |-> name, operations |-> <<>>,
     note |-> <<>>, isCustom |-> isCustom]

Operation(selection, name, type, isCustom) ==
    [selection |-> selection, name |-> name, arguments |-> <<>>, type |-> type,
     note |-> <<>>, isCustom |-> isCustom]

Argument(selection, name, isCustom) ==
    [selection |-> selection, name |-> name, note |-> <<>>, isCustom |-> isCustom]

\* Map<string, V> as the sequence of its entries in insertion order
MapHas(m, key) == \E i \in 1..Len(m) : m[i].key = key
MapIndex(m, key) == CHOOSE i \in 1..Len(m) : m[i].key = key
MapGet(m, key) == m[MapIndex(m, key)].value
MapSet(m, key, value) ==
    IF MapHas(m, key)
    THEN [m EXCEPT ![MapIndex(m, key)] = [key |-> key, value |-> value]]
    ELSE Append(m, [key |-> key, value |-> value])
MapDelete(m, key) ==
    IF MapHas(m, key) THEN Splice(m, MapIndex(m, key) - 1) ELSE m
MapKeys(m) == [i \in 1..Len(m) |-> m[i].key]
MapValues(m) == [i \in 1..Len(m) |-> m[i].value]

\* the model as one value: the two groups and the objects they reach
Model == [group |-> group, entityHeap |-> entityHeap,
          operationHeap |-> operationHeap, argumentHeap |-> argumentHeap]

\* AnalyzeResult constructor; AnalyzeResult.clear()
EmptyGroup == [g \in {Recognized, Unknown} |-> <<>>]
EmptyModel == [group |-> EmptyGroup, entityHeap |-> <<>>,
               operationHeap |-> <<>>, argumentHeap |-> <<>>]
\* clear() empties both maps; the objects they held are unreachable from then on
clear(M) == EmptyModel

getGroup(M, g) == M.group[g]

\* entities.set(name, {...}) with a new Entity object
SetNewEntity(M, g, entity) ==
    [M EXCEPT !.entityHeap = Append(@, entity),
              !.group[g] = MapSet(@, entity.name, Len(M.entityHeap) + 1)]

\* entity.operations.push({...}) with a new Operation object and new Arguments
PushNewOperation(M, e, operation, args) ==
    LET n == Len(M.argumentHeap)
        o == Len(M.operationHeap) + 1
    IN [M EXCEPT
          !.argumentHeap = @ \o args,
          !.operationHeap =
              Append(@, [operation EXCEPT
                            !.arguments = [i \in 1..Len(args) |-> n + i]]),
          !.entityHeap[e].operations = Append(@, o)]

\* export function appendNote(note, more)
Space == " "
appendNote(note, more) ==
    IF note = <<>> THEN more ELSE note \o <<Space>> \o more

\* String.prototype.includes(t), for a non-empty t
includes(s, t) == \E i \in 1..(Len(s) - Len(t) + 1) : SubSeq(s, i, i + Len(t) - 1) = t

\* String.prototype.endsWith(t)
endsWith(s, t) == Len(s) >= Len(t) /\ SubSeq(s, Len(s) - Len(t) + 1, Len(s)) = t

\* String.prototype.replace(t, ""): the first occurrence of the string t goes
replace(s, t) ==
    IF ~includes(s, t) THEN s
    ELSE LET i == Min({k \in 1..(Len(s) - Len(t) + 1) : SubSeq(s, k, k + Len(t) - 1) = t})
         IN SubSeq(s, 1, i - 1) \o SubSeq(s, i + Len(t), Len(s))

-----------------------------------------------------------------------------
(* Extractor messages: src/src/analyzer/django.ts 8-61 *)

WorkspacePath == "/ws/"

\* path.relative(this.workspacePath.fsPath, msg.filePath)
RelativePath(filePath) ==
    IF filePath # <<>> /\ Head(filePath) = WorkspacePath THEN Tail(filePath)
    ELSE <<"../">> \o filePath

Attribute(name, startLine, startColumn, endLine, endColumn) ==
    [name |-> name, startLine |-> startLine, startColumn |-> startColumn,
     endLine |-> endLine, endColumn |-> endColumn]

ModelContent(name) ==
    [type |-> "model", name |-> name, methodType |-> "other", object |-> <<>>,
     objectTypes |-> <<>>, attributes |-> <<>>]

MethodContent(name, methodType, object, objectTypes, attributes) ==
    [type |-> "method", name |-> name, methodType |-> methodType,
     object |-> object, objectTypes |-> objectTypes, attributes |-> attributes]

Message(filePath, fromLine, toLine, fromColumn, toColumn, content) ==
    [filePath |-> filePath, fromLine |-> fromLine, toLine |-> toLine,
     fromColumn |-> fromColumn, toColumn |-> toColumn, content |-> content]

-----------------------------------------------------------------------------
(* The resolvers: collectEntities and collectOperations *)

AtomicType == <<"django.db.transaction.atomic">>
AtomicEntity == <<"[", "django.db.transaction.atomic", "]">>
ManagerType == <<"django.db.models.manager.", "Manager">>
BaseManagerType == <<"django.db.models.manager.", "Base", "Manager">>
QuerySetType == <<"django.db.models.query._QuerySet">>
AnyTypes == {QuerySetType \o <<"[", "Any", ", ", "Any", "]">>,
             ManagerType \o <<"[", "Any", "]">>}
FilterSetType == <<"FilterSet">>

EntityManagerType == <<"Entity", "Manager">>
QueryRunnerType == <<"QueryRunner">>
ConnectionType == <<"Connection">>
DataSourceType == <<"DataSource">>
Bracketed(name) == <<"[">> \o name \o <<"]">>

\* the synthetic entities each analyzer seeds into an empty Recognized group
SeedEntities(kind) ==
    IF kind = "django" THEN <<AtomicEntity>>
    ELSE <<Bracketed(EntityManagerType), Bracketed(QueryRunnerType),
           Bracketed(ConnectionType), Bracketed(DataSourceType)>>

RECURSIVE SeedAll(_, _)
SeedAll(M, names) ==
    IF names = <<>> THEN M
    ELSE SeedAll(SetNewEntity(M, Recognized,
                              Entity(UndefinedSelection, Head(names), FALSE)),
                 Tail(names))

\* the selection of a declared entity: the Django analyzer makes the path
\* relative and the lines 0-based, the TypeORM analyzer copies the message
EntitySelection(kind, msg) ==
    IF kind = "django"
    THEN Selection(RelativePath(msg.filePath), msg.fromLine - 1, msg.fromColumn,
                   msg.toLine - 1, msg.toColumn)
    ELSE Selection(msg.filePath, msg.fromLine, msg.fromColumn,
                   msg.toLine, msg.toColumn)

RECURSIVE DeclareAll(_, _, _)
DeclareAll(kind, M, msgs) ==
    IF msgs = <<>> THEN M
    ELSE LET msg == Head(msgs)
         IN IF msg.content.type = "model"
               /\ ~MapHas(getGroup(M, Recognized), msg.content.name)
            THEN DeclareAll(kind,
                     SetNewEntity(M, Recognized,
                         Entity(EntitySelection(kind, msg), msg.content.name, FALSE)),
                     Tail(msgs))
            ELSE DeclareAll(kind, M, Tail(msgs))

collectEntities(kind, M, msgs) ==
    DeclareAll(kind,
               IF Len(getGroup(M, Recognized)) = 0
               THEN SeedAll(M, SeedEntities(kind)) ELSE M,
               msgs)

\* DjangoAnalyzer.getBaseEntityNames: last path segment -> qualified name, or
\* null (an undefined value here) when several entities share the segment
BaseName(name) ==
    IF Positions(name, ".") = {} THEN name
    ELSE SubSeq(name, Max(Positions(name, ".")) + 1, Len(name))

RECURSIVE BaseNamesFrom(_, _)
BaseNamesFrom(names, acc) ==
    IF names = <<>> THEN acc
    ELSE LET name == Head(names)
         IN IF name # <<>> /\ Head(name) = "["
            THEN BaseNamesFrom(Tail(names), acc)
            ELSE BaseNamesFrom(Tail(names),
                     IF MapHas(acc, BaseName(name))
                     THEN MapSet(acc, BaseName(name), UndefinedString)
                     ELSE MapSet(acc, BaseName(name), Some(name)))

\* the same without the null for a shared segment: every entity is entered
\* under its last segment
getBaseEntityNamesShared(entities) ==
    LET names == SelectSeq(MapKeys(entities), LAMBDA name : name = <<>> \/ Head(name) # "[")
    IN [i \in 1..Len(names) |-> [key |-> BaseName(names[i]), value |-> Some(names[i])]]

getBaseEntityNames(entities) == BaseNamesFrom(MapKeys(entities), <<>>)

\* baseEntityNames.get(base) that is neither undefined nor null
UniqueBase(baseEntityNames, base) ==
    IF MapHas(baseEntityNames, base) THEN MapGet(baseEntityNames, base)
    ELSE UndefinedString

FirstSegment(object) ==
    IF Positions(object, ".") = {} THEN object
    ELSE SubSeq(object, 1, Min(Positions(object, ".")) - 1)

\* the first name of the list that is a key of the map
FirstKnown(entities, names) ==
    LET hits == {i \in 1..Len(names) : MapHas(entities, names[i])}
    IN IF hits = {} THEN UndefinedString ELSE Some(names[Min(hits)])

\* django.ts 222-319: the rules tried on one candidate callee type, in order;
\* the result is the key of the Recognized entity the operation is pushed to
DjangoMatch(calleeType, content, entities, baseEntityNames) ==
    LET manager == Enclosed(calleeType, ManagerType, "[", "]")
        baseManager == Enclosed(calleeType, BaseManagerType, "[", "]")
        querySet == Enclosed(calleeType, QuerySetType, "[", "]")
        listed == IF querySet.def
                  THEN FirstKnown(entities, SplitOn(querySet.v, ", "))
                  ELSE UndefinedString
        managerBase == WordBeforeSuffix(calleeType, "Manager")
        bySuffix == IF managerBase.def
                    THEN UniqueBase(baseEntityNames, managerBase.v)
                    ELSE UndefinedString
        byReceiver == IF calleeType \in AnyTypes
                      THEN UniqueBase(baseEntityNames, FirstSegment(content.object))
                      ELSE UndefinedString
        filterBase == WordBeforeSuffix(content.name, "Filter")
        byFilter == IF calleeType = FilterSetType /\ filterBase.def
                    THEN UniqueBase(baseEntityNames, filterBase.v)
                    ELSE UndefinedString
    IN IF calleeType = AtomicType THEN Some(AtomicEntity)
       ELSE IF manager.def /\ MapHas(entities, manager.v) THEN manager
       ELSE IF baseManager.def /\ MapHas(entities, baseManager.v) THEN baseManager
       ELSE IF listed.def THEN listed
       ELSE IF bySuffix.def THEN bySuffix
       ELSE IF byReceiver.def THEN byReceiver
       ELSE IF byFilter.def THEN byFilter
       ELSE IF MapHas(entities, calleeType) THEN Some(calleeType)
       ELSE UndefinedString

\* typeorm.ts 189-242, the same for the TypeORM analyzer: rule 1 left out
TypeORMMatchNoGlobal(calleeType, content, entities, baseEntityNames) ==
    LET repository == Enclosed(calleeType, <<"Repository">>, "<", ">")
        builder == Enclosed(calleeType, <<"SelectQueryBuilder">>, "<", ">")
    IN IF repository.def /\ MapHas(entities, repository.v) THEN repository
       ELSE IF builder.def /\ MapHas(entities, builder.v) THEN builder
       ELSE IF MapHas(entities, calleeType) THEN Some(calleeType)
       ELSE UndefinedString

\* typeorm.ts 189-242: the rules tried on one candidate callee type, in order
TypeORMMatch(calleeType, content, entities, baseEntityNames) ==
    IF calleeType \in {EntityManagerType, QueryRunnerType, ConnectionType,
                       DataSourceType}
    THEN Some(Bracketed(calleeType))
    ELSE TypeORMMatchNoGlobal(calleeType, content, entities, baseEntityNames)

Match(kind, calleeType, content, entities, baseEntityNames) ==
    IF kind = "django"
    THEN DjangoMatch(calleeType, content, entities, baseEntityNames)
    ELSE TypeORMMatch(calleeType, content, entities, baseEntityNames)

\* the last candidate for which a rule matches decides
FindRecognizedLast(kind, content, entities, baseEntityNames) ==
    LET types == content.objectTypes
        hits == {i \in 1..Len(types) :
                    Match(kind, types[i], content, entities, baseEntityNames).def}
    IN IF hits = {} THEN UndefinedString
       ELSE Match(kind, types[Max(hits)], content, entities, baseEntityNames)

\* `for (const calleeType of content.objectTypes)`: the first candidate for
\* which a rule matches decides
FindRecognized(kind, content, entities, baseEntityNames) ==
    LET types == content.objectTypes
        hits == {i \in 1..Len(types) :
                    Match(kind, types[i], content, entities, baseEntityNames).def}
    IN IF hits = {} THEN UndefinedString
       ELSE Match(kind, types[Min(hits)], content, entities, baseEntityNames)

\* the Operation and the Arguments built from a method message
OperationSelection(kind, msg) == EntitySelection(kind, msg)

OperationOf(kind, msg) ==
    Operation(OperationSelection(kind, msg),
              msg.content.object \o <<".">> \o msg.content.name,
              msg.content.methodType, FALSE)

ArgumentsOf(kind, msg) ==
    LET filePath == OperationSelection(kind, msg).filePath
        attrs == msg.content.attributes
    IN [i \in 1..Len(attrs) |->
          Argument(Selection(filePath, attrs[i].startLine - 1,
                             attrs[i].startColumn, attrs[i].endLine - 1,
                             attrs[i].endColumn),
                   attrs[i].name, FALSE)]

\* the same without the `if (!unknowns.has(calleeType))` test: the pseudo-entity
\* is set anew for every unresolved call
AttachUnknownOverwrite(kind, M, msg) ==
    LET calleeType == msg.content.objectTypes[1]
        M1 == SetNewEntity(M, Unknown, Entity(UndefinedSelection, calleeType, FALSE))
    IN PushNewOperation(M1, MapGet(getGroup(M1, Unknown), calleeType),
                        OperationOf(kind, msg), ArgumentsOf(kind, msg))

\* `if (!found)`: the Unknown pseudo-entity of the first candidate type
AttachUnknown(kind, M, msg) ==
    LET calleeType == msg.content.objectTypes[1]
        M1 == IF MapHas(getGroup(M, Unknown), calleeType) THEN M
              ELSE SetNewEntity(M, Unknown,
                                Entity(UndefinedSelection, calleeType, FALSE))
    IN PushNewOperation(M1, MapGet(getGroup(M1, Unknown), calleeType),
                        OperationOf(kind, msg), ArgumentsOf(kind, msg))

\* one method message; threw: `entities.get(...)!` was undefined (a TypeError
\* that ends the close handler)
AttachOperation(kind, M, msg, baseEntityNames) ==
    LET entities == getGroup(M, Recognized)
        found == FindRecognized(kind, msg.content, entities, baseEntityNames)
    IN IF ~found.def THEN [model |-> AttachUnknown(kind, M, msg), threw |-> FALSE]
       ELSE IF ~MapHas(entities, found.v) THEN [model |-> M, threw |-> TRUE]
       ELSE [model |-> PushNewOperation(M, MapGet(entities, found.v),
                                        OperationOf(kind, msg),
                                        ArgumentsOf(kind, msg)),
             threw |-> FALSE]

RECURSIVE AttachAll(_, _, _, _)
AttachAll(kind, M, msgs, baseEntityNames) ==
    IF msgs = <<>> THEN [model |-> M, threw |-> FALSE]
    ELSE IF Head(msgs).content.type # "method"
    THEN AttachAll(kind, M, Tail(msgs), baseEntityNames)
    ELSE LET r == AttachOperation(kind, M, Head(msgs), baseEntityNames)
         IN IF r.threw THEN r
            ELSE AttachAll(kind, r.model, Tail(msgs), baseEntityNames)

collectOperations(kind, M, msgs) ==
    AttachAll(kind, M, msgs,
              IF kind = "django" THEN getBaseEntityNames(getGroup(M, Recognized))
              ELSE <<>>)

\* `this.collectEntities(output.messages); this.collectOperations(output.messages)`
Resolve(kind, M, msgs) == collectOperations(kind, collectEntities(kind, M, msgs), msgs)

-----------------------------------------------------------------------------
(* The move primitives: src/src/model.ts 347-439 *)

\* `item.selection?.field`
FilePathOf(selection) ==
    IF selection.def THEN Some(selection.filePath) ELSE UndefinedString
NumberOf(selection, field) ==
    IF selection.def THEN Some(selection[field]) ELSE UndefinedNumber

\* MovedItemLocator; parentName is for display only and is left out
LocatorOf(item) ==
    [name |-> item.name,
     filePath |-> FilePathOf(item.selection),
     fromLine |-> NumberOf(item.selection, "fromLine"),
     toLine |-> NumberOf(item.selection, "toLine"),
     fromColumn |-> NumberOf(item.selection, "fromColumn"),
     toColumn |-> NumberOf(item.selection, "toColumn")]

\* model.ts 366-371 and 408-413: the structural match of an item and a locator
Matches(item, locator) ==
    /\ item.name = locator.name
    /\ FilePathOf(item.selection) = locator.filePath
    /\ NumberOf(item.selection, "fromLine") = locator.fromLine
    /\ NumberOf(item.selection, "fromColumn") = locator.fromColumn
    /\ NumberOf(item.selection, "toLine") = locator.toLine
    /\ NumberOf(item.selection, "toColumn") = locator.toColumn

NotFound == [found |-> FALSE, srcEntity |-> 0, srcOperation |-> 0, item |-> 0, index |-> 0]

\* model.ts 361-378: `break` leaves the loop over one entity's operations only,
\* so the last entity of the group holding a match decides, with its first match
FindOperation(M, srcGroup, locator) ==
    LET entities == MapValues(getGroup(M, srcGroup))
        hits(e) == {i \in 1..Len(M.entityHeap[e].operations) :
                       Matches(M.operationHeap[M.entityHeap[e].operations[i]], locator)}
        holders == {k \in 1..Len(entities) : hits(entities[k]) # {}}
    IN IF holders = {} THEN NotFound
       ELSE LET e == entities[Max(holders)]
                i == Min(hits(e))
            IN [found |-> TRUE, srcEntity |-> e, srcOperation |-> 0,
                item |-> M.entityHeap[e].operations[i], index |-> i - 1]

\* the items in the order they were queued
Unsorted(items) == items

\* deletedItems.sort(([a], [b]) => b - a): a stable sort, index descending
RECURSIVE SortDescending(_)
SortDescending(items) ==
    IF items = <<>> THEN <<>>
    ELSE LET rest == SortDescending(Tail(items))
             before == {k \in 1..Len(rest) : rest[k].index <= Head(items).index}
             at == IF before = {} THEN Len(rest) + 1 ELSE Min(before)
         IN SubSeq(rest, 1, at - 1) \o <<Head(items)>> \o SubSeq(rest, at, Len(rest))

RECURSIVE SpliceOperations(_, _)
SpliceOperations(M, deletedItems) ==
    IF deletedItems = <<>> THEN M
    ELSE SpliceOperations(
             [M EXCEPT !.entityHeap[Head(deletedItems).owner].operations =
                          Splice(@, Head(deletedItems).index)],
             Tail(deletedItems))

RECURSIVE PushOperations(_, _, _, _, _)
PushOperations(M, srcGroup, targetEntity, locators, deletedItems) ==
    IF locators = <<>> THEN [model |-> M, deletedItems |-> deletedItems]
    ELSE LET f == FindOperation(M, srcGroup, Head(locators))
         IN IF ~f.found \/ f.srcEntity = targetEntity
            THEN PushOperations(M, srcGroup, targetEntity, Tail(locators), deletedItems)
            ELSE PushOperations(
                     [M EXCEPT !.entityHeap[targetEntity].operations = Append(@, f.item)],
                     srcGroup, targetEntity, Tail(locators),
                     Append(deletedItems, [index |-> f.index, owner |-> f.srcEntity]))

\* moveOperations leaving its loop at the first locator that matches nothing
moveOperationsUntilMiss(M, srcGroup, targetEntity, locators) ==
    LET misses == {i \in 1..Len(locators) : ~FindOperation(M, srcGroup, locators[i]).found}
        kept == IF misses = {} THEN locators ELSE SubSeq(locators, 1, Min(misses) - 1)
        pushed == PushOperations(M, srcGroup, targetEntity, kept, <<>>)
    IN SpliceOperations(pushed.model, SortDescending(pushed.deletedItems))

\* export function moveOperations(srcGroup, targetEntity, operations)
moveOperations(M, srcGroup, targetEntity, locators) ==
    LET pushed == PushOperations(M, srcGroup, targetEntity, locators, <<>>)
    IN SpliceOperations(pushed.model, SortDescending(pushed.deletedItems))

\* model.ts 401-422: again `break` leaves the innermost loop only, so the last
\* operation (of the last entity) holding a match decides, with its first match
FindArgument(M, srcGroup, locator) ==
    LET entities == MapValues(getGroup(M, srcGroup))
        places == {p \in [k : 1..Len(entities), j : 1..MaxOperations * 2] :
                      p.j <= Len(M.entityHeap[entities[p.k]].operations)}
        opAt(p) == M.entityHeap[entities[p.k]].operations[p.j]
        hits(o) == {i \in 1..Len(M.operationHeap[o].arguments) :
                       Matches(M.argumentHeap[M.operationHeap[o].arguments[i]], locator)}
        holders == {p \in places : hits(opAt(p)) # {}}
    IN IF holders = {} THEN NotFound
       ELSE LET p == CHOOSE q \in holders :
                        \A r \in holders : r.k < q.k \/ (r.k = q.k /\ r.j <= q.j)
                i == Min(hits(opAt(p)))
            IN [found |-> TRUE, srcEntity |-> entities[p.k], srcOperation |-> opAt(p),
                item |-> M.operationHeap[opAt(p)].arguments[i], index |-> i - 1]

RECURSIVE SpliceArguments(_, _)
SpliceArguments(M, deletedItems) ==
    IF deletedItems = <<>> THEN M
    ELSE SpliceArguments(
             [M EXCEPT !.operationHeap[Head(deletedItems).owner].arguments =
                          Splice(@, Head(deletedItems).index)],
             Tail(deletedItems))

RECURSIVE PushArguments(_, _, _, _, _)
PushArguments(M, srcGroup, targetOperation, locators, deletedItems) ==
    IF locators = <<>> THEN [model |-> M, deletedItems |-> deletedItems]
    ELSE LET f == FindArgument(M, srcGroup, Head(locators))
         IN IF ~f.found \/ f.srcOperation = targetOperation
            THEN PushArguments(M, srcGroup, targetOperation, Tail(locators), deletedItems)
            ELSE PushArguments(
                     [M EXCEPT !.operationHeap[targetOperation].arguments = Append(@, f.item)],
                     srcGroup, targetOperation, Tail(locators),
                     Append(deletedItems, [index |-> f.index, owner |-> f.srcOperation]))

\* export function moveArguments(srcGroup, targetOperation, args)
moveArguments(M, srcGroup, targetOperation, locators) ==
    LET pushed == PushArguments(M, srcGroup, targetOperation, locators, <<>>)
    IN SpliceArguments(pushed.model, SortDescending(pushed.deletedItems))

-----------------------------------------------------------------------------
(* References from the groups to the objects *)

GroupNames == {Recognized, Unknown}

\* the entries of the two maps
EntriesOf(M) ==
    UNION {{[g |-> g, e |-> M.group[g][k].value] : k \in 1..Len(M.group[g])} :
           g \in GroupNames}

\* every place an Operation is referenced from: group, entity, list index
OperationRefsOf(M) ==
    UNION {{[g |-> gk.g, e |-> gk.e, i |-> i] :
               i \in 1..Len(M.entityHeap[gk.e].operations)} :
           gk \in EntriesOf(M)}
OperationAt(M, r) == M.entityHeap[r.e].operations[r.i]
OperationRefs == OperationRefsOf(Model)

\* the entities of the model, and the operations they hold
EntitiesOf(M) == UNION {Range(MapValues(M.group[g])) : g \in GroupNames}
HeldOperations(M) == UNION {Range(M.entityHeap[e].operations) : e \in EntitiesOf(M)}

\* every place an Argument is referenced from: operation, list index
ArgumentRefsOf(M) ==
    UNION {{[o |-> o, i |-> i] : i \in 1..Len(M.operationHeap[o].arguments)} :
           o \in HeldOperations(M)}
ArgumentAt(M, r) == M.operationHeap[r.o].arguments[r.i]

-----------------------------------------------------------------------------
(* The persistence codec: src/src/model.ts 248-308 *)

\* a JSON text, as the tree of values it denotes
JString(s) == [t |-> "string", s |-> s, n |-> 0, items |-> <<>>]
JNumber(n) == [t |-> "number", s |-> <<>>, n |-> n, items |-> <<>>]
JBoolean(b) == [t |-> "boolean", s |-> <<>>, n |-> IF b THEN 1 ELSE 0, items |-> <<>>]
JArray(items) == [t |-> "array", s |-> <<>>, n |-> 0, items |-> items]
JObject(entries) == [t |-> "object", s |-> <<>>, n |-> 0, items |-> entries]
JEntry(key, value) == [key |-> key, value |-> value]

\* a property whose value is undefined is left out of the text
JOptional(key, defined, value) == IF defined THEN <<JEntry(key, value)>> ELSE <<>>

HasField(object, key) == \E i \in 1..Len(object.items) : object.items[i].key = key
Field(object, key) ==
    object.items[CHOOSE i \in 1..Len(object.items) : object.items[i].key = key].value

\* replacer(key, value) for a Map: {dataType: "Map", value: [...value]}, each
\* entry of the map being the array [key, value]
replacer(pairs) ==
    JObject(<<JEntry("dataType", JString(<<"Map">>)), JEntry("value", JArray(pairs))>>)

SelectionText(selection) ==
    JObject(<<JEntry("filePath", JString(selection.filePath)),
              JEntry("fromLine", JNumber(selection.fromLine)),
              JEntry("fromColumn", JNumber(selection.fromColumn)),
              JEntry("toLine", JNumber(selection.toLine)),
              JEntry("toColumn", JNumber(selection.toColumn))>>)

ArgumentText(M, a) ==
    LET argument == M.argumentHeap[a]
    IN JObject(JOptional("selection", argument.selection.def,
                         SelectionText(argument.selection))
               \o <<JEntry("name", JString(argument.name)),
                    JEntry("note", JString(argument.note)),
                    JEntry("isCustom", JBoolean(argument.isCustom))>>)

OperationText(M, o) ==
    LET operation == M.operationHeap[o]
    IN JObject(JOptional("selection", operation.selection.def,
                         SelectionText(operation.selection))
               \o <<JEntry("name", JString(operation.name)),
                    JEntry("arguments",
                           JArray([i \in 1..Len(operation.arguments) |->
                                      ArgumentText(M, operation.arguments[i])])),
                    JEntry("type", JString(<<operation.type>>)),
                    JEntry("note", JString(operation.note)),
                    JEntry("isCustom", JBoolean(operation.isCustom))>>)

EntityText(M, e) ==
    LET entity == M.entityHeap[e]
    IN JObject(JOptional("selection", entity.selection.def,
                         SelectionText(entity.selection))
               \o <<JEntry("name", JString(entity.name)),
                    JEntry("operations",
                           JArray([i \in 1..Len(entity.operations) |->
                                      OperationText(M, entity.operations[i])])),
                    JEntry("note", JString(entity.note)),
                    JEntry("isCustom", JBoolean(entity.isCustom))>>)

GroupText(M, g) ==
    replacer([k \in 1..Len(M.group[g]) |->
                 JArray(<<JString(M.group[g][k].key), EntityText(M, M.group[g][k].value)>>)])

ResultPath == <<WorkspacePath, ".vscode/", "results.json">>

\* JSON.stringify(this, replacer): an object that two lists hold is written out
\* at both places
stringify(M) ==
    JObject(<<JEntry("resultPath", JString(ResultPath)),
              JEntry("group",
                     replacer(<<JArray(<<JString(<<Recognized>>), GroupText(M, Recognized)>>),
                                JArray(<<JString(<<Unknown>>), GroupText(M, Unknown)>>)>>))>>)

\* AnalyzeResult.saveToStorage(): the file after the write
saveToStorage(M) == [exists |-> TRUE, text |-> stringify(M)]
NoFile == [exists |-> FALSE, text |-> <<>>]

\* new Map(pairs): a later pair of the same key takes the place of the earlier
RECURSIVE NewMap(_, _)
NewMap(pairs, m) ==
    IF pairs = <<>> THEN m
    ELSE NewMap(Tail(pairs), MapSet(m, Head(pairs).items[1].s, Head(pairs).items[2]))

\* a revived Map, as opposed to a plain object
JMap(m) == [t |-> "Map", s |-> <<>>, n |-> 0, items |-> m]

\* a reviver that hands every value back as it is
reviverNoMap(value) == value

\* reviver(key, value)
reviver(value) ==
    IF value.t = "object" /\ HasField(value, "dataType")
       /\ Field(value, "dataType") = JString(<<"Map">>)
    THEN JMap(NewMap(Field(value, "value").items, <<>>))
    ELSE value

\* JSON.parse(text, reviver): the reviver is called bottom-up on every value
RECURSIVE parse(_)
parse(text) ==
    IF text.t = "array"
    THEN reviver(JArray([i \in 1..Len(text.items) |-> parse(text.items[i])]))
    ELSE IF text.t = "object"
    THEN reviver(JObject([i \in 1..Len(text.items) |->
                             JEntry(text.items[i].key, parse(text.items[i].value))]))
    ELSE reviver(text)

SelectionOf(object) ==
    IF HasField(object, "selection")
    THEN LET s == Field(object, "selection")
         IN Selection(Field(s, "filePath").s, Field(s, "fromLine").n,
                      Field(s, "fromColumn").n, Field(s, "toLine").n,
                      Field(s, "toColumn").n)
    ELSE UndefinedSelection

ArgumentObject(object) ==
    [selection |-> SelectionOf(object), name |-> Field(object, "name").s,
     note |-> Field(object, "note").s, isCustom |-> Field(object, "isCustom").n = 1]

OperationObject(object) ==
    [selection |-> SelectionOf(object), name |-> Field(object, "name").s,
     arguments |-> <<>>, type |-> Field(object, "type").s[1],
     note |-> Field(object, "note").s, isCustom |-> Field(object, "isCustom").n = 1]

EntityObject(object) ==
    [selection |-> SelectionOf(object), name |-> Field(object, "name").s,
     operations |-> <<>>, note |-> Field(object, "note").s,
     isCustom |-> Field(object, "isCustom").n = 1]

\* the objects of the parsed text enter the heaps in the order of the text
RECURSIVE OperationObjects(_, _, _)
OperationObjects(M, e, objects) ==
    IF objects = <<>> THEN M
    ELSE LET arguments == Field(Head(objects), "arguments").items
         IN OperationObjects(
                PushNewOperation(M, e, OperationObject(Head(objects)),
                                 [i \in 1..Len(arguments) |-> ArgumentObject(arguments[i])]),
                e, Tail(objects))

RECURSIVE EntityObjects(_, _, _)
EntityObjects(M, g, entries) ==
    IF entries = <<>> THEN M
    ELSE LET e == Len(M.entityHeap) + 1
             added == [M EXCEPT !.entityHeap = Append(@, EntityObject(Head(entries).value)),
                                !.group[g] = MapSet(@, Head(entries).key, e)]
         IN EntityObjects(
                OperationObjects(added, e, Field(Head(entries).value, "operations").items),
                g, Tail(entries))

\* the group of a parsed result answers get() and values() when it is a Map of Maps
IsGroup(value) ==
    /\ value.t = "Map"
    /\ MapHas(value.items, <<Recognized>>) /\ MapGet(value.items, <<Recognized>>).t = "Map"
    /\ MapHas(value.items, <<Unknown>>) /\ MapGet(value.items, <<Unknown>>).t = "Map"

\* a text JSON.parse rejects: a result file cut short while it was written
Truncated == [t |-> "truncated", s |-> <<>>, n |-> 0, items |-> <<>>]
DamagedFile == [exists |-> TRUE, text |-> Truncated]

\* AnalyzeResult.loadFromStorage(): false when there is no file; otherwise
\* Object.assign(this, JSON.parse(data, reviver)) puts the parsed group in
\* place; the SyntaxError of JSON.parse is not caught
loadFromStorage(M, storage) ==
    IF ~storage.exists
    THEN [loaded |-> FALSE, usable |-> TRUE, threw |-> FALSE, model |-> M]
    ELSE IF storage.text = Truncated
    THEN [loaded |-> FALSE, usable |-> FALSE, threw |-> TRUE, model |-> M]
    ELSE LET newResult == parse(storage.text)
             newGroup == Field(newResult, "group")
         IN IF ~IsGroup(newGroup)
            THEN [loaded |-> TRUE, usable |-> FALSE, threw |-> FALSE, model |-> EmptyModel]
            ELSE [loaded |-> TRUE, usable |-> TRUE, threw |-> FALSE,
                  model |-> EntityObjects(
                                EntityObjects(EmptyModel, Recognized,
                                              MapGet(newGroup.items, <<Recognized>>).items),
                                Unknown, MapGet(newGroup.items, <<Unknown>>).items)]

-----------------------------------------------------------------------------
(* The annotation engine: src/unnamed/part_013, src/src/analyzer/django.ts *)

FULL_SCAN == <<"full-scan">>
CDA_TRAN == <<"cda-tran">>
NON_TRIVIAL == <<"non-trivial">>
NON_EQ == <<"non-eq">>

\* the tag without the suffix
AutoTagPlain(tag) == tag

\* `${tag}(a)`
AutoTag(tag) == tag \o <<"(a)">>

RECURSIVE Flatten(_)
Flatten(ss) == IF ss = <<>> THEN <<>> ELSE Head(ss) \o Flatten(Tail(ss))

\* entities.values() of the Recognized group, and the operations met when the
\* entities and their lists are walked in order
RecognizedEntities(M) == MapValues(getGroup(M, Recognized))
RecognizedOperations(M) ==
    Flatten([k \in 1..Len(RecognizedEntities(M)) |->
                M.entityHeap[RecognizedEntities(M)[k]].operations])

\* django.ts 383-389: some operation of the entity has a name ending in ".all"
hasFullScan(M, e) ==
    \E i \in 1..Len(M.entityHeap[e].operations) :
        endsWith(M.operationHeap[M.entityHeap[e].operations[i]].name, <<".", "all">>)

RECURSIVE FullScanEach(_, _)
FullScanEach(M, entities) ==
    IF entities = <<>> THEN M
    ELSE LET e == Head(entities)
         IN FullScanEach(
                IF ~includes(M.entityHeap[e].note, FULL_SCAN) /\ hasFullScan(M, e)
                THEN [M EXCEPT !.entityHeap[e].note = appendNote(@, AutoTag(FULL_SCAN))]
                ELSE M,
                Tail(entities))

autoAnnotateFullScan(M) == FullScanEach(M, RecognizedEntities(M))

NonTrivialLookups ==
    {<<"contains">>, <<"icontains">>, <<"startswith">>, <<"istartswith">>,
     <<"endswith">>, <<"iendswith">>, <<"regex">>, <<"iregex">>}
NonEqLookups ==
    NonTrivialLookups \cup {<<"gt">>, <<"gte">>, <<"lt">>, <<"lte">>, <<"range">>}

\* django.ts 405-443: some argument's last "__" segment is a lookup of the tag
hasLookup(M, o, tag) ==
    \E i \in 1..Len(M.operationHeap[o].arguments) :
        LET parts == SplitOn(M.argumentHeap[M.operationHeap[o].arguments[i]].name, "__")
        IN parts[Len(parts)] \in (IF tag = NON_EQ THEN NonEqLookups ELSE NonTrivialLookups)

RECURSIVE LookupEach(_, _, _)
LookupEach(M, tag, operations) ==
    IF operations = <<>> THEN M
    ELSE LET o == Head(operations)
         IN LookupEach(
                IF ~includes(M.operationHeap[o].note, tag) /\ hasLookup(M, o, tag)
                THEN [M EXCEPT !.operationHeap[o].note = appendNote(@, AutoTag(tag))]
                ELSE M,
                tag, Tail(operations))

autoAnnotateNonEqNonTrivial(M, tag) == LookupEach(M, tag, RecognizedOperations(M))

\* the column names of the model, in the order Array.prototype.sort() gives them
StringOrder == <<<<"a">>, <<"b">>, <<"c">>>>

RECURSIVE SelectIn(_, _)
SelectIn(strings, S) ==
    IF strings = <<>> THEN <<>>
    ELSE (IF Head(strings) \in S THEN <<Head(strings)>> ELSE <<>>)
             \o SelectIn(Tail(strings), S)

\* Array.prototype.join(sep)
RECURSIVE join(_, _)
join(strings, sep) ==
    IF strings = <<>> THEN <<>>
    ELSE IF Len(strings) = 1 THEN strings[1]
    ELSE strings[1] \o <<sep>> \o join(Tail(strings), sep)

\* Array.from(cda_set).sort().join(",")
cdaKeyOf(cda_set) == join(SelectIn(StringOrder, cda_set), ",")

\* the filter columns of an operation: the first "__" segment of each argument
\* name that has one or two segments
getCda(M, o) ==
    LET arguments == M.operationHeap[o].arguments
        parts(i) == SplitOn(M.argumentHeap[arguments[i]].name, "__")
    IN Flatten([i \in 1..Len(arguments) |->
                   IF Len(parts(i)) <= 2 THEN <<parts(i)[1]>> ELSE <<>>])

\* part_013 103-119: the distinct column sets in first-seen order, the
\* operations of each, and the operations with an empty set
RECURSIVE Classify(_, _, _)
Classify(M, operations, acc) ==
    IF operations = <<>> THEN acc
    ELSE LET op == Head(operations)
             cda_set == Range(getCda(M, op))
             cdaKey == cdaKeyOf(cda_set)
         IN Classify(M, Tail(operations),
                IF cda_set = {}
                THEN [acc EXCEPT !.remainingOperations = Append(@, op)]
                ELSE IF ~MapHas(acc.cdaIndex, cdaKey)
                THEN [acc EXCEPT !.cdas = Append(@, cda_set),
                                 !.cdaIndex = MapSet(@, cdaKey, <<op>>)]
                ELSE [acc EXCEPT !.cdaIndex =
                         MapSet(@, cdaKey, Append(MapGet(acc.cdaIndex, cdaKey), op))])

isSubset(subset, superset) == subset \subseteq superset

\* part_013 139-151: the set goes under the first child that contains it
RECURSIVE addChild(_, _)
addChild(children, c) ==
    LET supersets == {i \in 1..Len(children) : isSubset(c, children[i].cda)}
    IN IF supersets = {} THEN Append(children, [cda |-> c, children |-> <<>>])
       ELSE [children EXCEPT ![Min(supersets)].children = addChild(@, c)]

RECURSIVE AddAll(_, _)
AddAll(children, cdas) ==
    IF cdas = <<>> THEN children
    ELSE AddAll(addChild(children, Head(cdas)), Tail(cdas))

\* cdas.sort((a, b) => b.size - a.size), then every set added under the root
Graph(cdas) ==
    LET sorted == SortDescending([i \in 1..Len(cdas) |->
                                     [index |-> Cardinality(cdas[i]), cda |-> cdas[i]]])
    IN [cda |-> {},
        children |-> AddAll(<<>>, [i \in 1..Len(cdas) |-> sorted[i].cda])]

\* part_013 162-177: the best child is the first one of the greatest value
RECURSIVE findBestPath(_, _)
RECURSIVE BestChild(_, _, _)
BestChild(children, cdaIndex, best) ==
    IF children = <<>> THEN best
    ELSE LET c == findBestPath(Head(children), cdaIndex)
         IN BestChild(Tail(children), cdaIndex,
                      IF c.value > best.value THEN c ELSE best)

findBestPath(node, cdaIndex) ==
    LET best == BestChild(node.children, cdaIndex, [path |-> <<>>, value |-> 0])
        cdaKey == cdaKeyOf(node.cda)
    IN IF node.cda # {}
       THEN [path |-> Append(best.path, cdaKey),
             value |-> best.value + (IF MapHas(cdaIndex, cdaKey)
                                     THEN Len(MapGet(cdaIndex, cdaKey)) ELSE 0)]
       ELSE best

\* `cda[${len}/${maxLen}](a)`
PathTag(len, maxLen) == <<"cda[", ToString(len), "/", ToString(maxLen), "]", "(a)">>

RECURSIVE AppendEach(_, _, _)
AppendEach(M, operations, more) ==
    IF operations = <<>> THEN M
    ELSE AppendEach([M EXCEPT !.operationHeap[Head(operations)].note = appendNote(@, more)],
                    Tail(operations), more)

\* part_013 184-198: the operations of the sets on the path get their tag, and
\* the sets leave the index
RECURSIVE TagPath(_, _, _, _)
TagPath(M, cdaIndex, path, maxLen) ==
    IF path = <<>> THEN [model |-> M, cdaIndex |-> cdaIndex]
    ELSE LET cdaKey == Head(path)
             len == Len(SplitOn(cdaKey, ","))
         IN TagPath(IF MapHas(cdaIndex, cdaKey)
                    THEN AppendEach(M, MapGet(cdaIndex, cdaKey), PathTag(len, maxLen))
                    ELSE M,
                    MapDelete(cdaIndex, cdaKey), Tail(path), maxLen)

\* a note with cda-tran in it is left alone
KeepsNoteTran(note) == includes(note, CDA_TRAN)

\* part_013 205: a note with cda-tran or full-scan in it is left alone
KeepsNote(note) == includes(note, CDA_TRAN) \/ includes(note, FULL_SCAN)

RECURSIVE TagRemaining(_, _)
TagRemaining(M, operations) ==
    IF operations = <<>> THEN M
    ELSE LET op == Head(operations)
         IN TagRemaining(
                IF ~KeepsNote(M.operationHeap[op].note)
                THEN [M EXCEPT !.operationHeap[op].note = appendNote(@, AutoTag(CDA_TRAN))]
                ELSE M,
                Tail(operations))

\* part_013 209-218: the entity's signature is the largest set of the path
EntitySignature(M, e, bestPath) ==
    IF bestPath = <<>> \/ bestPath[Len(bestPath)] = <<>> THEN M
    ELSE IF ~includes(M.entityHeap[e].note, <<"cda[">>)
    THEN [M EXCEPT !.entityHeap[e].note =
             appendNote(@, <<"cda[">> \o bestPath[Len(bestPath)] \o <<"]", "(a)">>)]
    ELSE M

\* the column sets of one entity, and its best path
ClassifyEntity(M, e, remainingOperations) ==
    Classify(M, M.entityHeap[e].operations,
             [cdas |-> <<>>, cdaIndex |-> <<>>, remainingOperations |-> remainingOperations])
BestPathOf(M, e) ==
    LET c == ClassifyEntity(M, e, <<>>)
    IN findBestPath(Graph(c.cdas), c.cdaIndex)

\* part_013 100-219: one turn of the loop over the entities; remainingOperations
\* is declared before the loop and so carries over from entity to entity
AnnotateEntity(M, e, remainingOperations) ==
    LET c == ClassifyEntity(M, e, remainingOperations)
        bestPath == findBestPath(Graph(c.cdas), c.cdaIndex).path
        tagged == IF bestPath # <<>>
                  THEN TagPath(M, c.cdaIndex, bestPath,
                               Len(SplitOn(bestPath[Len(bestPath)], ",")))
                  ELSE [model |-> M, cdaIndex |-> c.cdaIndex]
        remaining == c.remainingOperations \o Flatten(MapValues(tagged.cdaIndex))
    IN [model |-> EntitySignature(TagRemaining(tagged.model, remaining), e, bestPath),
        remainingOperations |-> remaining]

RECURSIVE AnnotateEntities(_, _, _)
AnnotateEntities(M, entities, remainingOperations) ==
    IF entities = <<>> THEN M
    ELSE LET done == AnnotateEntity(M, Head(entities), remainingOperations)
         IN AnnotateEntities(done.model, Tail(entities), done.remainingOperations)

\* export function autoAnnotateCdaTran(result, getCda, outputChannel)
autoAnnotateCdaTran(M) == AnnotateEntities(M, RecognizedEntities(M), <<>>)

\* summarize without its removal branch
summarizeAppendOnly(M, e, tag) ==
    LET hasTag == \E i \in 1..Len(M.entityHeap[e].operations) :
                      includes(M.operationHeap[M.entityHeap[e].operations[i]].note, tag)
    IN IF hasTag /\ ~includes(M.entityHeap[e].note, tag)
       THEN [M EXCEPT !.entityHeap[e].note = appendNote(@, AutoTag(tag))]
       ELSE M

\* part_013 225-239
summarize(M, e, tag) ==
    LET hasTag == \E i \in 1..Len(M.entityHeap[e].operations) :
                      includes(M.operationHeap[M.entityHeap[e].operations[i]].note, tag)
        note == M.entityHeap[e].note
    IN IF hasTag /\ ~includes(note, tag)
       THEN [M EXCEPT !.entityHeap[e].note = appendNote(@, AutoTag(tag))]
       ELSE IF ~hasTag /\ includes(note, AutoTag(tag))
       THEN [M EXCEPT !.entityHeap[e].note =
                replace(replace(@, <<Space>> \o AutoTag(tag)), AutoTag(tag))]
       ELSE M

RECURSIVE SummarizeEach(_, _)
SummarizeEach(M, entities) ==
    IF entities = <<>> THEN M
    ELSE SummarizeEach(
             summarize(summarize(summarize(M, Head(entities), NON_TRIVIAL),
                                 Head(entities), NON_EQ),
                       Head(entities), CDA_TRAN),
             Tail(entities))

\* export function updateEntityAnnotation(result)
updateEntityAnnotation(M) == SummarizeEach(M, RecognizedEntities(M))

supportedAutoAnnotateTags == <<FULL_SCAN, CDA_TRAN, NON_EQ, NON_TRIVIAL>>

\* DjangoAnalyzer.autoAnnotate(tag)
autoAnnotate(M, tag) ==
    updateEntityAnnotation(
        IF tag = FULL_SCAN THEN autoAnnotateFullScan(M)
        ELSE IF tag = CDA_TRAN THEN autoAnnotateCdaTran(M)
        ELSE IF tag \in {NON_EQ, NON_TRIVIAL} THEN autoAnnotateNonEqNonTrivial(M, tag)
        ELSE M)

\* for (const tag of tags) analyzer.autoAnnotate(tag)
RECURSIVE AutoAnnotateEach(_, _)
AutoAnnotateEach(M, tags) ==
    IF tags = <<>> THEN M
    ELSE AutoAnnotateEach(autoAnnotate(M, Head(tags)), Tail(tags))

-----------------------------------------------------------------------------
(* Specification SpecResolve: the resolver run on extractor output *)

RepositoryOf(name) == <<"Repository", "<">> \o name \o <<">">>
Foo == <<"Foo">>
AppFoo == <<"app", ".", "Foo">>
LibFoo == <<"lib", ".", "Foo">>
SourceFile == <<WorkspacePath, "views">>
ModelsFile == <<WorkspacePath, "models">>

EntityMessages ==
    {Message(ModelsFile, 1, 2, 0, 1, ModelContent(Foo)),
     Message(ModelsFile, 3, 4, 0, 1, ModelContent(AppFoo)),
     Message(ModelsFile, 5, 6, 0, 1, ModelContent(LibFoo))}

CandidateLists ==
    {<<EntityManagerType, RepositoryOf(Foo)>>,
     <<RepositoryOf(Foo), EntityManagerType>>,
     <<<<"Foo", "Manager">>>>,
     <<ManagerType \o <<"[">> \o AppFoo \o <<"]">>>>,
     <<QuerySetType \o <<"[", "Bar", ", ", "Foo", "]">>>>,
     <<AtomicType>>,
     <<ManagerType \o <<"[", "Any", "]">>>>,
     <<<<"Bar">>, Foo>>,
     <<<<"Bar">>>>}

MethodMessages ==
    {Message(SourceFile, 7, 7, 2, 9,
             MethodContent(<<"filter">>, "read", <<"Foo", ".", "objects">>, types,
                           <<Attribute(<<"a">>, 7, 4, 7, 5)>>)) :
        types \in CandidateLists}

MessageLists == UNION {[1..n -> EntityMessages \cup MethodMessages] : n \in 1..MaxMessages}

Idle ==
    /\ proc = 0
    /\ processes = <<>>
    /\ runs = <<>>
    /\ file = NoFile

SetModel(M) ==
    \E m \in {M} :
        /\ group' = m.group
        /\ entityHeap' = m.entityHeap
        /\ operationHeap' = m.operationHeap
        /\ argumentHeap' = m.argumentHeap

ModelIs(M) ==
    \E m \in {M} :
        /\ group = m.group
        /\ entityHeap = m.entityHeap
        /\ operationHeap = m.operationHeap
        /\ argumentHeap = m.argumentHeap

\* a change of the model followed by analyzeResult.saveToStorage()
SetModelAndSave(M) == \E m \in {M} : SetModel(m) /\ file' = saveToStorage(m)

InitResolve ==
    /\ ModelIs(EmptyModel)
    /\ orm \in {"django", "typeorm"}
    /\ writes = <<>> /\ steps = <<>>
    /\ messages = <<>>
    /\ Idle

\* the close handler's merge of one extractor output into the cleared model
ResolveMessages ==
    /\ messages = <<>>
    /\ \E msgs \in MessageLists :
          /\ SetModel(Resolve(orm, Model, msgs).model)
          /\ messages' = msgs
    /\ UNCHANGED <<orm, proc, processes, runs, file, writes, steps>>

\* runAnalyzer: analyzeResult.clear() before the next run
ClearModel ==
    /\ messages # <<>>
    /\ SetModel(clear(Model))
    /\ messages' = <<>>
    /\ UNCHANGED <<orm, proc, processes, runs, file, writes, steps>>

NextResolve == ResolveMessages \/ ClearModel

SpecResolve == InitResolve /\ [][NextResolve]_vars

\* the method messages of the run, in order: the k-th one builds operationHeap[k]
MethodIndexes == {i \in 1..Len(messages) : messages[i].content.type = "method"}
RECURSIVE Sorted(_)
Sorted(S) == IF S = {} THEN <<>> ELSE <<Min(S)>> \o Sorted(S \ {Min(S)})
MethodSeq == [k \in 1..Cardinality(MethodIndexes) |-> messages[Sorted(MethodIndexes)[k]]]
RefsTo(o) == {r \in OperationRefs : OperationAt(Model, r) = o}

\* C1: after the resolver has processed the messages from an empty model, every
\* method-call message corresponds to exactly one Operation held exactly once
\* in one entity of the two groups: none is dropped, none is attached twice.
C1_EveryCallAttachedOnce ==
    /\ \A k \in 1..Len(MethodSeq) :
          /\ k <= Len(operationHeap)
          /\ Cardinality(RefsTo(k)) = 1
          /\ operationHeap[k].name =
                MethodSeq[k].content.object \o <<".">> \o MethodSeq[k].content.name
          /\ operationHeap[k].selection = OperationSelection(orm, MethodSeq[k])
    /\ Cardinality(OperationRefs) = Len(MethodSeq)

C1_Witness ==
    /\ Len(MethodSeq) >= 2
    /\ \E r \in OperationRefs : r.g = Recognized
    /\ \E r \in OperationRefs : r.g = Unknown

\* C10: with the TypeORM analyzer, a call whose candidate types are
\* ["EntityManager", "Repository<Foo>"] with Foo declared is attached to the
\* [EntityManager] entity and not to Foo.
PriorityCalls ==
    {k \in 1..Len(MethodSeq) :
        MethodSeq[k].content.objectTypes = <<EntityManagerType, RepositoryOf(Foo)>>}
FooDeclared == \E i \in 1..Len(messages) : messages[i].content = ModelContent(Foo)
HeldBy(g, name) ==
    IF MapHas(group[g], name)
    THEN Range(entityHeap[MapGet(group[g], name)].operations) ELSE {}

C10_GlobalTypeBeforeRepository ==
    (orm = "typeorm" /\ FooDeclared) =>
        \A k \in PriorityCalls :
            /\ k \in HeldBy(Recognized, Bracketed(EntityManagerType))
            /\ k \notin HeldBy(Recognized, Foo)

C10_Witness ==
    /\ orm = "typeorm" /\ FooDeclared
    /\ PriorityCalls # {}
    /\ MapHas(group[Recognized], Foo)

\* the candidates of the k-th call for which some rule matches, on the
\* entities the run declared
MatchedCandidates(k) ==
    LET content == MethodSeq[k].content
        entities == group[Recognized]
        baseEntityNames == IF orm = "django" THEN getBaseEntityNames(entities) ELSE <<>>
    IN {i \in 1..Len(content.objectTypes) :
           Match(orm, content.objectTypes[i], content, entities, baseEntityNames).def}
MatchOf(k, i) ==
    LET content == MethodSeq[k].content
        entities == group[Recognized]
        baseEntityNames == IF orm = "django" THEN getBaseEntityNames(entities) ELSE <<>>
    IN Match(orm, content.objectTypes[i], content, entities, baseEntityNames).v

\* C28: resolution is candidate-major: an operation is attached according to
\* the first candidate callee type, in list order, for which any of the rules
\* matches; a later candidate decides only when every rule failed on all the
\* earlier ones; the Unknown group is used only when every rule failed on every
\* candidate (then under the first candidate type).
C28_CandidateMajor ==
    \A k \in 1..Len(MethodSeq) :
        /\ k <= Len(operationHeap)
        /\ Cardinality(RefsTo(k)) = 1
        /\ IF MatchedCandidates(k) = {}
           THEN k \in HeldBy(Unknown, MethodSeq[k].content.objectTypes[1])
           ELSE k \in HeldBy(Recognized, MatchOf(k, Min(MatchedCandidates(k))))

\* a call with two candidates that both match, by different rules and to
\* different entities, and a call whose first candidate matches nothing while
\* its second one does
C28_Witness ==
    /\ \E k \in 1..Len(MethodSeq) :
          /\ MatchedCandidates(k) = {1, 2}
          /\ MatchOf(k, 1) # MatchOf(k, 2)
    /\ \E k \in 1..Len(MethodSeq) : MatchedCandidates(k) = {2}

\* the declared entity names whose last path segment is Foo, and the calls
\* whose only candidate type is FooManager
FooManager == <<"Foo", "Manager">>
DeclaredAsFoo ==
    {messages[i].content.name :
        i \in {j \in 1..Len(messages) :
                  /\ messages[j].content.type = "model"
                  /\ BaseName(messages[j].content.name) = Foo}}
SuffixCalls ==
    {k \in 1..Len(MethodSeq) : MethodSeq[k].content.objectTypes = <<FooManager>>}

\* C11: with the Django analyzer, when two or more declared entities share the
\* last path segment Foo, a call of candidate type FooManager is attached to
\* none of them, in any number and declaration order of these entities: it is
\* held by the Unknown pseudo-entity FooManager.
C11_SharedBaseNameNotAttached ==
    (orm = "django" /\ Cardinality(DeclaredAsFoo) >= 2) =>
        \A k \in SuffixCalls :
            /\ k \in HeldBy(Unknown, FooManager)
            /\ \A name \in DeclaredAsFoo : k \notin HeldBy(Recognized, name)

\* three entities share the segment and a FooManager call was resolved
C11_Witness ==
    /\ orm = "django"
    /\ DeclaredAsFoo = {Foo, AppFoo, LibFoo}
    /\ SuffixCalls # {}
    /\ MapHas(group[Unknown], FooManager)

-----------------------------------------------------------------------------
(* Specification SpecMove: the editing commands on a resolved model *)

ManagerOf(name) == ManagerType \o <<"[">> \o name \o <<"]">>

\* extractor output of a small Django project: one model, one call on its
\* manager, one call on a receiver of unknown type
MoveMessages ==
    <<Message(ModelsFile, 3, 4, 0, 1, ModelContent(AppFoo)),
      Message(SourceFile, 7, 7, 2, 9,
              MethodContent(<<"filter">>, "read", <<"Foo", ".", "objects">>,
                            <<ManagerOf(AppFoo)>>, <<Attribute(<<"a">>, 7, 4, 7, 5)>>)),
      Message(SourceFile, 11, 11, 2, 9,
              MethodContent(<<"all">>, "read", <<"x">>, <<<<"x">>>>, <<>>))>>

\* the project after its analysis: resolved, annotated and saved
AnalyzedProject == AutoAnnotateEach(Resolve("django", EmptyModel, MoveMessages).model,
                                    supportedAutoAnnotateTags)

InitMove ==
    /\ ModelIs(AnalyzedProject)
    /\ orm = "django"
    /\ writes = <<>> /\ steps = <<>>
    /\ messages = MoveMessages
    /\ proc = 0
    /\ processes = <<>>
    /\ runs = <<>>
    /\ file = saveToStorage(AnalyzedProject)

Entities == EntitiesOf(Model)
Operations == HeldOperations(Model)
\* the name typed for a custom item: the name of the extracted call, so that a
\* custom operation differs from it by the location only
CustomName == <<"Foo", ".", "objects", ".", "filter">>
CustomArgument == <<"a">>

\* splinter.operation.add on an entity item, without a selection; the command
\* is offered on the entity items of the Recognized view (package.json, menus)
OperationAdd ==
    /\ Len(operationHeap) < MaxOperations
    /\ \E e \in Range(MapValues(group[Recognized])) :
          SetModelAndSave(PushNewOperation(Model, e,
                              Operation(UndefinedSelection, CustomName, "read", TRUE), <<>>))
    /\ UNCHANGED <<orm, messages, proc, processes, runs, writes, steps>>

\* splinter.argument.add on an operation item, without a selection; the command
\* is offered on the operation items of the Recognized view (package.json, menus)
ArgumentAdd ==
    /\ Len(argumentHeap) < MaxArguments
    /\ \E o \in UNION {Range(entityHeap[e].operations) :
                         e \in Range(MapValues(group[Recognized]))} :
          SetModelAndSave([Model EXCEPT
              !.argumentHeap = Append(@, Argument(UndefinedSelection, CustomArgument, TRUE)),
              !.operationHeap[o].arguments = Append(@, Len(argumentHeap) + 1)])
    /\ UNCHANGED <<orm, messages, proc, processes, runs, writes, steps>>

\* a locator that matches no item of the model
GhostLocator == LocatorOf(Operation(UndefinedSelection, <<"ghost">>, "read", FALSE))

\* handleDrag: the locators of the dragged items of one view, in selection order
OperationLocators(g) ==
    {LocatorOf(operationHeap[OperationAt(Model, r)]) : r \in {q \in OperationRefs : q.g = g}}
        \cup {GhostLocator}
ArgumentLocators(g) ==
    {LocatorOf(argumentHeap[a]) :
        a \in UNION {Range(operationHeap[OperationAt(Model, r)].arguments) :
                        r \in {q \in OperationRefs : q.g = g}}}
        \cup {GhostLocator}

\* the item lists a drag can carry: distinct items of the view (two of them have
\* the same locator only when they are structurally identical) and stale ones
DraggedOperations(g) ==
    LET items == {r \in OperationRefs : r.g = g}
        real == UNION {{s \in [1..n -> items] : \A i, j \in 1..n : i # j => s[i] # s[j]} :
                          n \in 1..MaxLocators}
    IN {[i \in 1..Len(s) |-> LocatorOf(operationHeap[OperationAt(Model, s[i])])] : s \in real}
         \cup {<<GhostLocator>>}
         \cup {<<GhostLocator, l>> : l \in OperationLocators(g)}

DraggedArguments(g) ==
    LET items == {r \in ArgumentRefsOf(Model) :
                     \E q \in OperationRefs : q.g = g /\ OperationAt(Model, q) = r.o}
        real == UNION {{s \in [1..n -> items] : \A i, j \in 1..n : i # j => s[i] # s[j]} :
                          n \in 1..MaxLocators}
    IN {[i \in 1..Len(s) |-> LocatorOf(argumentHeap[ArgumentAt(Model, s[i])])] : s \in real}
         \cup {<<GhostLocator>>}
         \cup {<<GhostLocator, l>> : l \in ArgumentLocators(g)}

\* the lists of the model stay within the bounds (an aliased item counts twice)
WithinBounds(M) ==
    /\ Cardinality(OperationRefsOf(M)) <= MaxOperations
    /\ Cardinality(ArgumentRefsOf(M)) <= MaxArguments

DropOperationsOn(srcGroup, target, locators) ==
    /\ \E moved \in {moveOperations(Model, srcGroup, target, locators)} :
          WithinBounds(moved) /\ SetModelAndSave(moved)
    /\ UNCHANGED <<orm, messages, proc, processes, runs, writes, steps>>

DropArgumentsOn(srcGroup, target, locators) ==
    /\ \E moved \in {moveArguments(Model, srcGroup, target, locators)} :
          WithinBounds(moved) /\ SetModelAndSave(moved)
    /\ UNCHANGED <<orm, messages, proc, processes, runs, writes, steps>>

\* ORMItemProvider.handleDrop of operations on an entity item
DropOperations ==
    \E srcGroup \in GroupNames, target \in Entities :
        \E locators \in DraggedOperations(srcGroup) :
            DropOperationsOn(srcGroup, target, locators)

\* ORMItemProvider.handleDrop of arguments on an operation item
DropArguments ==
    \E srcGroup \in GroupNames, target \in Operations :
        \E locators \in DraggedArguments(srcGroup) :
            DropArgumentsOn(srcGroup, target, locators)

NextMove == OperationAdd \/ DropOperations

SpecMove == InitMove /\ [][NextMove]_vars

(* Specification SpecMoveArguments: the same for the arguments of the model *)

NextMoveArguments == ArgumentAdd \/ DropArguments

SpecMoveArguments == InitMove /\ [][NextMoveArguments]_vars

-----------------------------------------------------------------------------
(* The move primitives on the editing specifications *)

\* every Operation object is held at exactly one place, every Argument too
ExclusivelyOwned ==
    /\ \A o \in 1..Len(operationHeap) : Cardinality(RefsTo(o)) = 1
    /\ \A a \in 1..Len(argumentHeap) :
          Cardinality({r \in ArgumentRefsOf(Model) : ArgumentAt(Model, r) = a}) = 1

\* the operations an entity shows, in list order
ShownOperations(entities, operations, e) ==
    [i \in 1..Len(entities[e].operations) |-> operations[entities[e].operations[i]]]

\* C4: moveOperations with the one locator of operation X held by entity A, and
\* a target entity B other than A, removes exactly one element (X) from A's
\* operations list and appends exactly one element (X) to the end of B's list
\* (whatever else A holds under the same name stays in A).
C4_SingleLocatorMovesItem ==
    [][\A srcGroup \in GroupNames, target \in Entities :
          \A r \in {q \in OperationRefs : q.g = srcGroup /\ q.e # target} :
             (/\ ExclusivelyOwned
              /\ DropOperationsOn(srcGroup, target,
                      <<LocatorOf(operationHeap[OperationAt(Model, r)])>>))
             => /\ ShownOperations(entityHeap', operationHeap', r.e) =
                      Splice(ShownOperations(entityHeap, operationHeap, r.e), r.i - 1)
                /\ ShownOperations(entityHeap', operationHeap', target) =
                      Append(ShownOperations(entityHeap, operationHeap, target),
                             operationHeap[OperationAt(Model, r)])]_vars

\* C12: moveOperations with the locator of an operation and, as target, the
\* entity that holds this operation is a no-op: the operations list of that
\* entity and of every other entity is the same, element for element and in
\* order, before and after the call.
C12_MoveToOwnEntityIsNoOp ==
    [][\A r \in OperationRefs :
          (/\ ExclusivelyOwned
           /\ DropOperationsOn(r.g, r.e, <<LocatorOf(operationHeap[OperationAt(Model, r)])>>))
          => \A e \in Entities : entityHeap'[e].operations = entityHeap[e].operations]_vars

\* C5: after any sequence of moves with arbitrary locator lists, every
\* Operation of the model is referenced from exactly one entity's operations
\* list and every Argument from exactly one operation's arguments list: no
\* item is aliased in two lists and none is lost.
C5_NoAliasNoLoss ==
    /\ \A o \in 1..Len(operationHeap) :
          \E r \in OperationRefs :
              /\ OperationAt(Model, r) = o
              /\ \A q \in OperationRefs : OperationAt(Model, q) = o => q = r
    /\ \A a \in 1..Len(argumentHeap) :
          \E r \in ArgumentRefsOf(Model) :
              /\ ArgumentAt(Model, r) = a
              /\ \A q \in ArgumentRefsOf(Model) : ArgumentAt(Model, q) = a => q = r

\* the locators of the two views (a stale one among them) that match no
\* operation, no argument, of the group
AllOperationLocators == OperationLocators(Recognized) \cup OperationLocators(Unknown)
AllArgumentLocators == ArgumentLocators(Recognized) \cup ArgumentLocators(Unknown)
UnmatchedOperations(g) ==
    {l \in AllOperationLocators : ~FindOperation(Model, g, l).found}
UnmatchedArguments(g) ==
    {l \in AllArgumentLocators : ~FindArgument(Model, g, l).found}

\* the other locators of a call: none or one
OtherLocators(all) == {<<>>} \cup {<<l>> : l \in all}

\* a locator that matches no operation (for moveArguments: no argument) of
\* the source group is skipped without error: alone it changes no list, and
\* before or after the other locators of a call it leaves the result of the
\* call what it is without it.
UnmatchedLocatorSkipped ==
        \A g \in GroupNames :
            /\ \A target \in Entities, l \in UnmatchedOperations(g) :
                  \A others \in OtherLocators(AllOperationLocators) :
                     /\ moveOperations(Model, g, target, <<l>>) = Model
                     /\ moveOperations(Model, g, target, <<l>> \o others)
                            = moveOperations(Model, g, target, others)
                     /\ moveOperations(Model, g, target, others \o <<l>>)
                            = moveOperations(Model, g, target, others)
            /\ \A target \in Operations, l \in UnmatchedArguments(g) :
                  \A others \in OtherLocators(AllArgumentLocators) :
                     /\ moveArguments(Model, g, target, <<l>>) = Model
                     /\ moveArguments(Model, g, target, <<l>> \o others)
                            = moveArguments(Model, g, target, others)
                     /\ moveArguments(Model, g, target, others \o <<l>>)
                            = moveArguments(Model, g, target, others)

\* C20: on every model that the editing commands have changed, a locator that
\* matches no operation (no argument) of the source group is skipped without
\* error: it changes no list and the other locators of the call are processed
\* as if it were absent.
C20_UnmatchedLocatorSkipped == Model # AnalyzedProject => UnmatchedLocatorSkipped

\* a custom operation was added and moved to the Unknown group, and a call
\* with a stale locator before the locator of an operation moves that operation
C20_Witness ==
    /\ \E r \in OperationRefs : r.g = Unknown /\ operationHeap[OperationAt(Model, r)].isCustom
    /\ \E g \in GroupNames, target \in Entities, l \in AllOperationLocators :
          /\ GhostLocator \in UnmatchedOperations(g)
          /\ moveOperations(Model, g, target, <<GhostLocator, l>>) # Model

\* the calls of moveOperations with several locators, each the locator of one
\* operation of the source group and of no other: the places of the located
\* operations, in locator order
LocatedPlaces(g) ==
    LET items == {r \in OperationRefs : r.g = g}
        locator(r) == LocatorOf(operationHeap[OperationAt(Model, r)])
        matched(r) == {q \in items : Matches(operationHeap[OperationAt(Model, q)], locator(r))}
    IN UNION {{s \in [1..n -> items] :
                  /\ \A i, j \in 1..n : i # j => s[i] # s[j]
                  /\ \A i \in 1..n : matched(s[i]) = {s[i]}} :
              n \in 2..MaxLocators}

\* the list s without the elements at the positions P, and the sequence s
\* without the elements that fail the test
RECURSIVE WithoutPositions(_, _, _)
WithoutPositions(s, P, i) ==
    IF i > Len(s) THEN <<>>
    ELSE (IF i \in P THEN <<>> ELSE <<s[i]>>) \o WithoutPositions(s, P, i + 1)

\* moveOperations removes exactly the located operations from their source
\* entities and appends them to the target in locator order (an operation
\* located in the target itself stays where it is)
MovesExactlyTheLocated ==
    \A g \in GroupNames, target \in Entities : \A s \in LocatedPlaces(g) :
        LET locators == [i \in 1..Len(s) |-> LocatorOf(operationHeap[OperationAt(Model, s[i])])]
            after == moveOperations(Model, g, target, locators)
            taken(e) == {s[i].i : i \in {k \in 1..Len(s) : s[k].e = e /\ e # target}}
            moved == SelectSeq(s, LAMBDA r : r.e # target)
        IN /\ after.group = group
           /\ after.operationHeap = operationHeap
           /\ \A e \in Entities \ {target} :
                 after.entityHeap[e].operations =
                     WithoutPositions(entityHeap[e].operations, taken(e), 1)
           /\ after.entityHeap[target].operations =
                 entityHeap[target].operations
                     \o [k \in 1..Len(moved) |-> OperationAt(Model, moved[k])]

\* C27: moveOperations with several locators that match pairwise distinct
\* operations, possibly several of one source entity and in any locator order,
\* removes exactly the located operations from their source entities: every
\* other operation keeps its entity and its relative order, and the target's
\* list is its previous content followed by the moved operations in locator
\* order.
C27_MovesExactlyTheLocated == Model # AnalyzedProject => MovesExactlyTheLocated

\* two operations of one entity are located, the earlier one first, with an
\* operation after them in the list, and the target is another entity
C27_Witness ==
    \E g \in GroupNames, target \in Entities : \E s \in LocatedPlaces(g) :
        /\ s[1].e = s[2].e /\ s[1].e # target
        /\ s[1].i < s[2].i
        /\ Len(entityHeap[s[1].e].operations) > s[2].i

-----------------------------------------------------------------------------
(* Specification SpecAnnotate: the annotation commands on an analyzed project *)

\* the calls of the project, all on the manager of app.Foo: filter() on the
\* columns a and b, on a, on a and (by a contains lookup) c, and all()
CallKinds ==
    {<<<<"a">>, <<"b">>>>, <<<<"a">>>>, <<<<"a">>, <<"c", "__", "contains">>>>, <<>>}

CallMessage(kind, line) ==
    Message(SourceFile, line, line, 2, 9,
            MethodContent(IF kind = <<>> THEN <<"all">> ELSE <<"filter">>, "read",
                          <<"Foo", ".", "objects">>, <<ManagerOf(AppFoo)>>,
                          [i \in 1..Len(kind) |-> Attribute(kind[i], line, 4 * i, line, 4 * i + 1)]))

ProjectMessages(kinds) ==
    <<Message(ModelsFile, 3, 4, 0, 1, ModelContent(AppFoo))>>
        \o [i \in 1..Len(kinds) |-> CallMessage(kinds[i], 10 + i)]

\* the project of the CDA example: column sets {a,b} x3, {a} x2, {c} x1
ExampleKinds ==
    <<<<<<"a">>, <<"b">>>>, <<<<"a">>, <<"b">>>>, <<<<"a">>, <<"b">>>>,
      <<<<"a">>>>, <<<<"a">>>>, <<<<"c", "__", "contains">>>>>>

\* a project whose column set {a} lies under two sets that do not contain each
\* other: {a,b} x1, {a,c} x2, {a} x1
ForkKinds ==
    <<<<<<"a">>, <<"b">>>>, <<<<"a">>, <<"c", "__", "contains">>>>,
      <<<<"a">>, <<"c", "__", "contains">>>>, <<<<"a">>>>>>

Projects ==
    {ProjectMessages(kinds) : kinds \in UNION {[1..n -> CallKinds] : n \in 0..MaxCalls}}
        \cup {ProjectMessages(ExampleKinds), ProjectMessages(ForkKinds)}

\* the close handler has merged the extractor output; nothing is saved yet
InitAnnotate ==
    /\ messages \in Projects
    /\ ModelIs(Resolve("django", EmptyModel, messages).model)
    /\ orm = "django"
    /\ writes = <<>> /\ steps = <<>>
    /\ Idle

WithinNotes(M) ==
    /\ \A e \in 1..Len(M.entityHeap) : Len(M.entityHeap[e].note) <= MaxNote
    /\ \A o \in 1..Len(M.operationHeap) : Len(M.operationHeap[o].note) <= MaxNote

AutoAnnotateWith(tags) ==
    /\ \E annotated \in {AutoAnnotateEach(Model, tags)} :
          WithinNotes(annotated) /\ SetModelAndSave(annotated)
    /\ UNCHANGED <<orm, messages, proc, processes, runs, writes, steps>>

\* runAnalyzer, once analyze() has resolved to true: every supported tag, then
\* the save
AnnotateAnalyzed ==
    /\ ~file.exists
    /\ AutoAnnotateWith(supportedAutoAnnotateTags)

\* the tags picked in the quick pick of splinter.autoAnnotate, in its order
TagPicks == {supportedAutoAnnotateTags, <<CDA_TRAN>>}

\* splinter.autoAnnotate
AutoAnnotateCommand ==
    /\ file.exists
    /\ \E tags \in TagPicks : AutoAnnotateWith(tags)

\* String.prototype.trim()
RECURSIVE trim(_)
trim(s) ==
    IF s # <<>> /\ Head(s) = Space THEN trim(Tail(s))
    ELSE IF s # <<>> /\ s[Len(s)] = Space THEN trim(SubSeq(s, 1, Len(s) - 1))
    ELSE s

\* note.replace(/ ?\S+\(a\)/g, ""): in the first run of non-space characters
\* that has "(a)" after its first character, everything up to its last "(a)"
\* goes, with the space before the run; then the same on what follows
RECURSIVE RemoveAutoTags(_)
RemoveAutoTags(s) ==
    LET inRun(b, i) == \A j \in b..i : s[j] # Space
        starts == {b \in 1..Len(s) :
                      /\ s[b] # Space /\ (b = 1 \/ s[b - 1] = Space)
                      /\ \E i \in (b + 1)..Len(s) : s[i] = "(a)" /\ inRun(b, i)}
    IN IF starts = {} THEN s
       ELSE LET b == Min(starts)
                last == Max({i \in (b + 1)..Len(s) : s[i] = "(a)" /\ inRun(b, i)})
            IN SubSeq(s, 1, IF b = 1 THEN 0 ELSE b - 2)
                   \o RemoveAutoTags(SubSeq(s, last + 1, Len(s)))

ClearedNote(note) == trim(RemoveAutoTags(note))

RECURSIVE ClearOperations(_, _)
ClearOperations(M, operations) ==
    IF operations = <<>> THEN M
    ELSE ClearOperations([M EXCEPT !.operationHeap[Head(operations)].note = ClearedNote(@)],
                         Tail(operations))

RECURSIVE ClearEntities(_, _)
ClearEntities(M, entities) ==
    IF entities = <<>> THEN M
    ELSE ClearEntities(
             [ClearOperations(M, M.entityHeap[Head(entities)].operations)
                 EXCEPT !.entityHeap[Head(entities)].note = ClearedNote(@)],
             Tail(entities))

\* splinter.clearAutoAnnotate
ClearAutoAnnotate ==
    /\ file.exists
    /\ SetModelAndSave(ClearEntities(Model, RecognizedEntities(Model)))
    /\ UNCHANGED <<orm, messages, proc, processes, runs, writes, steps>>

\* splinter.item.addTag with one tag picked, on an operation or an entity item
\* whose note does not hold the tag yet
ManualTags == {FULL_SCAN, CDA_TRAN}
HasManualTag(note) ==
    \E i \in 1..Len(note) :
        <<note[i]>> \in ManualTags /\ (i = Len(note) \/ note[i + 1] # "(a)")
ManuallyTagged ==
    {o \in 1..Len(operationHeap) : HasManualTag(operationHeap[o].note)}
        \cup {-e : e \in {k \in 1..Len(entityHeap) : HasManualTag(entityHeap[k].note)}}

AddTag ==
    /\ file.exists
    /\ Cardinality(ManuallyTagged) < MaxManualTags
    /\ \E tag \in ManualTags :
          \/ \E o \in Operations :
                /\ ~includes(operationHeap[o].note, tag)
                /\ Len(operationHeap[o].note) + 2 <= MaxNote
                /\ SetModelAndSave([Model EXCEPT !.operationHeap[o].note = appendNote(@, tag)])
          \/ \E e \in Entities :
                /\ ~includes(entityHeap[e].note, tag)
                /\ Len(entityHeap[e].note) + 2 <= MaxNote
                /\ SetModelAndSave([Model EXCEPT !.entityHeap[e].note = appendNote(@, tag)])
    /\ UNCHANGED <<orm, messages, proc, processes, runs, writes, steps>>

NextAnnotate == AnnotateAnalyzed \/ AutoAnnotateCommand \/ ClearAutoAnnotate \/ AddTag

SpecAnnotate == InitAnnotate /\ [][NextAnnotate]_vars

\* the notes of the model
NotesOf(M) ==
    <<[e \in 1..Len(M.entityHeap) |-> M.entityHeap[e].note],
      [o \in 1..Len(M.operationHeap) |-> M.operationHeap[o].note]>>

\* the model is as the engine's first run on the resolved project left it
FirstRunDone ==
    ModelIs(AutoAnnotateEach(Resolve("django", EmptyModel, messages).model,
                             supportedAutoAnnotateTags))

\* C6: running the annotation engine (autoAnnotate for each supported tag, each
\* followed by the summary step) a second time on a model that was not changed
\* since the first run modifies no entity note and no operation note.
C6_SecondRunChangesNothing ==
    [][(FirstRunDone /\ AutoAnnotateWith(supportedAutoAnnotateTags))
          => NotesOf(Model)' = NotesOf(Model)]_vars

OperationsIn(e) == Range(entityHeap[e].operations)
ColumnSet(o) == Range(getCda(Model, o))

NoCdaTag(note) == ~includes(note, <<"cda[">>) /\ ~includes(note, CDA_TRAN)
Untagged(e) ==
    /\ NoCdaTag(entityHeap[e].note)
    /\ \A o \in OperationsIn(e) : NoCdaTag(operationHeap[o].note)

\* the operations whose column set lies on the best path of the entity
OnPath(e, o) ==
    /\ ColumnSet(o) # {}
    /\ \E k \in 1..Len(BestPathOf(Model, e).path) :
          BestPathOf(Model, e).path[k] = cdaKeyOf(ColumnSet(o))
LargestOnPath(e) == Max({Cardinality(ColumnSet(o)) : o \in {p \in OperationsIn(e) : OnPath(e, p)}})

TaggedOnPath(e, o) ==
    operationHeap'[o].note =
        appendNote(operationHeap[o].note,
                   <<"cda[", ToString(Cardinality(ColumnSet(o))), "/",
                     ToString(LargestOnPath(e)), "]", "(a)">>)

ExampleProject == messages = ProjectMessages(ExampleKinds)
ExampleTagged(o, tag) == operationHeap'[o].note = appendNote(operationHeap[o].note, tag)

\* the example: {a,b} x3, {a} x2, {c} x1 has the best path {a,b} -> {a} of
\* value 5, and the tags cda[2/2](a), cda[1/2](a) and, for {c}, cda-tran(a)
ExampleHolds(e) ==
    /\ BestPathOf(Model, e) = [path |-> <<<<"a">>, <<"a", ",", "b">>>>, value |-> 5]
    /\ \A o \in 1..3 : ExampleTagged(o, <<"cda[", "2", "/", "2", "]", "(a)">>)
    /\ \A o \in 4..5 : ExampleTagged(o, <<"cda[", "1", "/", "2", "]", "(a)">>)
    /\ includes(operationHeap[6].note, FULL_SCAN)
          \/ ExampleTagged(6, <<"cda-tran", "(a)">>)

\* C7 as stated: after the CDA-transitivity rule runs on a Recognized entity
\* whose notes carry no CDA tags yet, every operation whose column set lies on
\* the best path is tagged cda[k/m](a), k the size of its set and m the size of
\* the largest set on the path, and every other operation is tagged
\* cda-tran(a).
C7_EveryOtherOperationTagged ==
    [][AutoAnnotateWith(<<CDA_TRAN>>) =>
          \A e \in Range(RecognizedEntities(Model)) :
              Untagged(e) =>
                  \A o \in OperationsIn(e) :
                      IF OnPath(e, o) THEN TaggedOnPath(e, o)
                      ELSE includes(operationHeap'[o].note, AutoTag(CDA_TRAN))]_vars

\* C7, amended: after the CDA-transitivity rule runs on a Recognized entity
\* whose notes carry no CDA tags yet, every operation whose column set lies on
\* the best path gets cda[k/m](a) appended, k the size of its set and m the
\* size of the largest set on the path; every other operation gets cda-tran(a)
\* appended unless its note contains full-scan, and then its note is left as it
\* is.  In the example project the path is {a,b} -> {a} with value 5 and the
\* tags are cda[2/2](a), cda[1/2](a) and cda-tran(a).
C7_CdaTagging ==
    [][AutoAnnotateWith(<<CDA_TRAN>>) =>
          \A e \in Range(RecognizedEntities(Model)) :
              Untagged(e) =>
                  /\ \A o \in OperationsIn(e) :
                        IF OnPath(e, o) THEN TaggedOnPath(e, o)
                        ELSE operationHeap'[o].note =
                                 IF includes(operationHeap[o].note, FULL_SCAN)
                                 THEN operationHeap[o].note
                                 ELSE appendNote(operationHeap[o].note, AutoTag(CDA_TRAN))
                  /\ (ExampleProject /\ OperationsIn(e) # {}) => ExampleHolds(e)]_vars

\* the rule has run alone on the example project
C7_Witness ==
    /\ ExampleProject
    /\ \A o \in 1..3 : operationHeap[o].note = <<"cda[", "2", "/", "2", "]", "(a)">>
    /\ \A o \in 4..5 : operationHeap[o].note = <<"cda[", "1", "/", "2", "]", "(a)">>
    /\ operationHeap[6].note = <<"cda-tran", "(a)">>

\* the chains of the entity's distinct non-empty column sets, and what they cover
ColumnSets(e) == {ColumnSet(o) : o \in OperationsIn(e)} \ {{}}
Chains(e) ==
    {C \in SUBSET ColumnSets(e) : \A A, B \in C : A \subseteq B \/ B \subseteq A}
Covered(e, C) ==
    Cardinality({i \in 1..Len(entityHeap[e].operations) :
                    ColumnSet(entityHeap[e].operations[i]) \in C})

\* C8: once the engine has run, for every Recognized entity the total operation
\* count of the best path is the maximum, over all chains of the entity's
\* distinct non-empty column sets totally ordered by inclusion, of the number of
\* operations whose column set belongs to the chain.
C8_BestPathIsBestChain ==
    file.exists =>
        \A e \in Range(RecognizedEntities(Model)) :
            BestPathOf(Model, e).value = Max({Covered(e, C) : C \in Chains(e)})

-----------------------------------------------------------------------------
(* Specification SpecAutoAnnotate: single calls of Analyzer.autoAnnotate *)

\* a tag that is not in supportedAutoAnnotateTags()
UnsupportedTag == <<"hot-path">>
AutoAnnotateTags == {CDA_TRAN, NON_TRIVIAL, UnsupportedTag}

\* analyzer.autoAnnotate(tag) for one tag, and the save that follows the calls
AutoAnnotateOne(tag) ==
    /\ file.exists
    /\ \E annotated \in {autoAnnotate(Model, tag)} :
          WithinNotes(annotated) /\ SetModelAndSave(annotated)
    /\ UNCHANGED <<orm, messages, proc, processes, runs, writes, steps>>

\* splinter.item.clearNote on one operation or entity item
ClearNote ==
    /\ file.exists
    /\ \/ \E o \in Operations :
             /\ operationHeap[o].note # <<>>
             /\ SetModelAndSave([Model EXCEPT !.operationHeap[o].note = <<>>])
       \/ \E e \in Entities :
             /\ entityHeap[e].note # <<>>
             /\ SetModelAndSave([Model EXCEPT !.entityHeap[e].note = <<>>])
    /\ UNCHANGED <<orm, messages, proc, processes, runs, writes, steps>>

\* splinter.item.addTag with one tag picked, on any operation or entity item
AppendTag ==
    /\ file.exists
    /\ Cardinality(ManuallyTagged) < MaxManualTags
    /\ \E tag \in ManualTags :
          \/ \E o \in Operations :
                /\ Len(operationHeap[o].note) + 2 <= MaxNote
                /\ SetModelAndSave([Model EXCEPT !.operationHeap[o].note = appendNote(@, tag)])
          \/ \E e \in Entities :
                /\ Len(entityHeap[e].note) + 2 <= MaxNote
                /\ SetModelAndSave([Model EXCEPT !.entityHeap[e].note = appendNote(@, tag)])
    /\ UNCHANGED <<orm, messages, proc, processes, runs, writes, steps>>

NextAutoAnnotate ==
    \/ AnnotateAnalyzed
    \/ AppendTag
    \/ ClearNote
    \/ \E tag \in AutoAnnotateTags : AutoAnnotateOne(tag)

\* projects of one call, and a project of two calls
SmallProjects ==
    {ProjectMessages(<<kind>>) : kind \in {<<<<"a">>>>, <<<<"a">>, <<"c", "__", "contains">>>>, <<>>}}
        \cup {ProjectMessages(<<<<<<"a">>, <<"b">>>>, <<<<"a">>>>>>)}

InitAutoAnnotate ==
    /\ messages \in SmallProjects
    /\ ModelIs(Resolve("django", EmptyModel, messages).model)
    /\ orm = "django"
    /\ writes = <<>> /\ steps = <<>>
    /\ Idle

SpecAutoAnnotate == InitAutoAnnotate /\ [][NextAutoAnnotate]_vars

\* C15: autoAnnotate called with a tag that is not supported mutates nothing:
\* every entity note and every operation note is as it was before the call.
C15_UnsupportedTagChangesNothing ==
    [][AutoAnnotateOne(UnsupportedTag) => NotesOf(Model)' = NotesOf(Model)]_vars

\* the tags updateEntityAnnotation summarizes, in its order
SummarizedTags == {NON_TRIVIAL, NON_EQ, CDA_TRAN}

\* a step that ends with updateEntityAnnotation
EngineStep == AnnotateAnalyzed \/ \E tag \in AutoAnnotateTags : AutoAnnotateOne(tag)

CarriedBySomeOperation(e, tag) ==
    \E o \in Range(entityHeap[e].operations) : includes(operationHeap[o].note, tag)

\* the tag as a token of its own, not followed by "(a)"
HasPlain(note, tag) ==
    \E i \in 1..Len(note) : <<note[i]>> = tag /\ (i = Len(note) \/ note[i + 1] # "(a)")

\* C16 as stated: after updateEntityAnnotation, the note of every Recognized
\* entity carries T(a), for each summarized tag T, exactly when at least one
\* of the entity's operations carries T.
C16_SummaryIffOperationTagged ==
    [][EngineStep =>
          (\A e \in Range(RecognizedEntities(Model)) : \A tag \in SummarizedTags :
              includes(entityHeap[e].note, AutoTag(tag)) <=> CarriedBySomeOperation(e, tag))']_vars

\* C16, amended: after updateEntityAnnotation, for each summarized tag T and
\* every Recognized entity, the note carries T(a) only if at least one of the
\* entity's operations carries T; when at least one operation carries T the
\* note carries T, as T(a) unless the note held T already (a manual plain T
\* takes the place of the summary tag); and a plain T that the note held before
\* the step is still in it.
C16_SummaryFollowsOperations ==
    [][EngineStep =>
          \A e \in Range(RecognizedEntities(Model)) : \A tag \in SummarizedTags :
              /\ (includes(entityHeap[e].note, AutoTag(tag)) => CarriedBySomeOperation(e, tag))'
              /\ (CarriedBySomeOperation(e, tag) => includes(entityHeap[e].note, tag))'
              /\ (CarriedBySomeOperation(e, tag)' /\ ~includes(entityHeap[e].note, tag)
                     => includes(entityHeap[e].note, AutoTag(tag))')
              /\ (HasPlain(entityHeap[e].note, tag) => HasPlain(entityHeap[e].note, tag)')]_vars

\* an entity whose operations carry cda-tran holds a manual cda-tran and no
\* summary tag, in a model the summary step has nothing to change in
C16_Witness ==
    /\ file.exists
    /\ \E e \in Range(RecognizedEntities(Model)) :
          /\ CarriedBySomeOperation(e, CDA_TRAN)
          /\ HasPlain(entityHeap[e].note, CDA_TRAN)
          /\ ~includes(entityHeap[e].note, AutoTag(CDA_TRAN))
          /\ Model = autoAnnotate(Model, UnsupportedTag)

\* the tokens of a note that do not end in "(a)", in their order
PlainTokens(note) ==
    SelectSeq(SplitOn(note, Space), LAMBDA token : token # <<>> /\ token[Len(token)] # "(a)")

PlainTokensOf(M) ==
    <<[e \in 1..Len(M.entityHeap) |-> PlainTokens(M.entityHeap[e].note)],
      [o \in 1..Len(M.operationHeap) |-> PlainTokens(M.operationHeap[o].note)]>>

\* the rules of the engine and its summary step
EngineRuns ==
    {autoAnnotateFullScan(Model), autoAnnotateCdaTran(Model),
     autoAnnotateNonEqNonTrivial(Model, NON_EQ),
     autoAnnotateNonEqNonTrivial(Model, NON_TRIVIAL),
     updateEntityAnnotation(Model)}

\* C17: the engine never touches a tag that lacks the "(a)" suffix: a run of
\* any rule or of the summary step adds only tokens that end in "(a)", and the
\* tokens without the suffix of every note are after the run what they were
\* before it, in the same order (on every model that was annotated, saved and
\* edited by hand since).
C17_PlainTokensUntouched ==
    file.exists => \A after \in EngineRuns : PlainTokensOf(after) = PlainTokensOf(Model)

\* a note holds a tag added by hand next to a tag of the engine, and a rule
\* or the summary step has something to change in the model
C17_Witness ==
    /\ file.exists
    /\ \E e \in Entities :
          HasManualTag(entityHeap[e].note) /\ includes(entityHeap[e].note, <<"(a)">>)
    /\ \E after \in EngineRuns : after # Model

-----------------------------------------------------------------------------
(* Specification SpecCodec: saving and reloading an edited model *)

\* splinter.reload: analyzeResult.clear(), then loadFromStorage()
Reload ==
    /\ \E stored \in {loadFromStorage(clear(Model), file)} :
          stored.usable /\ SetModel(stored.model)
    /\ UNCHANGED <<orm, messages, proc, processes, runs, file, writes, steps>>

NextCodec == OperationAdd \/ AddTag \/ ClearAutoAnnotate \/ Reload

SpecCodec == InitMove /\ [][NextCodec]_vars

\* what the two views show of a model: the entity keys of each group in order,
\* and under each the fields of the entity, of its operations and of their
\* arguments, in list order
ArgumentView(M, a) == M.argumentHeap[a]
OperationView(M, o) ==
    [M.operationHeap[o] EXCEPT
        !.arguments = [i \in 1..Len(@) |-> ArgumentView(M, @[i])]]
EntityView(M, e) ==
    [M.entityHeap[e] EXCEPT
        !.operations = [i \in 1..Len(@) |-> OperationView(M, @[i])]]
ViewOf(M) ==
    [g \in GroupNames |->
        [k \in 1..Len(M.group[g]) |->
            [key |-> M.group[g][k].key, entity |-> EntityView(M, M.group[g][k].value)]]]

\* C9: serializing the model with the replacer and deserializing the text with
\* the reviver yields the two groups as keyed collections, with the same entity
\* keys in each group, the same operations and arguments in the same order and
\* the same field values (name, type, note, isCustom, location).
C9_RoundTrip ==
    LET stored == loadFromStorage(clear(Model), saveToStorage(Model))
    IN /\ stored.loaded
       /\ stored.usable
       /\ ViewOf(stored.model) = ViewOf(Model)

\* a reloaded model with an entity in each group, custom and extracted
\* operations, and a tag(a) token in a note
C9_Witness ==
    /\ group[Recognized] # <<>> /\ group[Unknown] # <<>>
    /\ \E o, p \in Operations : operationHeap[o].isCustom /\ ~operationHeap[p].isCustom
    /\ \E o \in Operations : includes(operationHeap[o].note, <<"(a)">>)
    /\ \E e \in Entities : includes(entityHeap[e].note, <<"(a)">>)
    /\ file.exists
    /\ ModelIs(loadFromStorage(EmptyModel, file).model)

-----------------------------------------------------------------------------
(* Specification SpecAnalyze: runs of the analyzer, their processes, cancel *)

\* exit codes of an extractor process: none yet, success, failure, and the
\* null code of a process that a signal ended
NoCode == -1
Succeeded == 0
Failed == 1
Signalled == 2

Process == [alive |-> TRUE, killed |-> FALSE, code |-> NoCode]
Run(process, at) ==
    [process |-> process, at |-> at, ok |-> FALSE, isCancellationRequested |-> FALSE]

\* the extension is activated on a workspace without a persisted result
InitAnalyze ==
    /\ ModelIs(EmptyModel)
    /\ orm \in {"django", "typeorm"}
    /\ writes = <<>> /\ steps = <<>>
    /\ messages = <<>>
    /\ Idle

\* runAnalyzer after activate or after splinter.reanalyze has deleted the
\* result file: clear(), loadFromStorage() finds no file, analyze() is called
\* and either rejects the request or spawns the extractor
RunAnalyzer ==
    /\ Len(runs) < MaxRuns
    /\ SetModel(clear(Model))
    /\ file' = NoFile
    /\ IF proc # 0
       THEN /\ runs' = Append(runs, Run(0, "resolved"))
            /\ UNCHANGED <<proc, processes>>
       ELSE /\ processes' = Append(processes, Process)
            /\ proc' = Len(processes) + 1
            /\ runs' = Append(runs, Run(Len(processes) + 1, "waiting"))
    /\ UNCHANGED <<orm, messages, writes, steps>>

\* an extractor process ends: by itself with either status, or by the signal
Exit ==
    \E p \in 1..Len(processes) :
        /\ processes[p].alive
        /\ \E code \in (IF processes[p].killed THEN {Signalled} ELSE {Succeeded, Failed}) :
              processes' = [processes EXCEPT ![p].alive = FALSE, ![p].code = code]
        /\ UNCHANGED <<modelVars, orm, messages, proc, runs, file, writes, steps>>

\* the user cancels the progress notification of a run: analyzer.cancel()
Cancel(i) ==
    /\ runs[i].at \in {"waiting", "reading"}
    /\ ~runs[i].isCancellationRequested
    /\ runs' = [runs EXCEPT ![i].isCancellationRequested = TRUE]
    /\ processes' = IF proc # 0 /\ processes[proc].alive
                    THEN [processes EXCEPT ![proc].killed = TRUE]
                    ELSE processes
    /\ proc' = 0
    /\ UNCHANGED <<modelVars, orm, messages, file, writes, steps>>

\* the 'close' handler of a run's process, up to `await readFile` or to its end
Close(i) ==
    /\ runs[i].at = "waiting"
    /\ ~processes[runs[i].process].alive
    /\ IF processes[runs[i].process].code = Succeeded
       THEN /\ runs' = [runs EXCEPT ![i].at = "reading"]
            /\ UNCHANGED proc
       ELSE /\ runs' = [runs EXCEPT ![i].at = "resolved", ![i].ok = FALSE]
            /\ proc' = 0
    /\ UNCHANGED <<modelVars, orm, messages, processes, file, writes, steps>>

\* the 'close' handler after `await readFile`: the output is merged into the
\* model, the promise resolves to true and the process is forgotten; when
\* collectOperations throws, the handler ends there
Read(i) ==
    /\ runs[i].at = "reading"
    /\ \E merged \in {Resolve(orm, Model, MoveMessages)} :
          /\ SetModel(merged.model)
          /\ IF merged.threw
             THEN runs' = [runs EXCEPT ![i].at = "threw"] /\ UNCHANGED proc
             ELSE runs' = [runs EXCEPT ![i].at = "resolved", ![i].ok = TRUE] /\ proc' = 0
    /\ messages' = MoveMessages
    /\ UNCHANGED <<orm, processes, file, writes, steps>>

supportedTagsOf(kind) == IF kind = "django" THEN supportedAutoAnnotateTags ELSE <<>>

\* runAnalyzer once analyze() has resolved: the annotation and the save, or
\* the error message
Finish(i) ==
    /\ runs[i].at = "resolved"
    /\ runs' = [runs EXCEPT ![i].at = "finished"]
    /\ IF runs[i].ok
       THEN SetModelAndSave(AutoAnnotateEach(Model, supportedTagsOf(orm)))
       ELSE UNCHANGED <<modelVars, file>>
    /\ UNCHANGED <<orm, messages, proc, processes, writes, steps>>

NextAnalyze ==
    \/ RunAnalyzer
    \/ Exit
    \/ \E i \in 1..Len(runs) : Cancel(i)
    \/ \E i \in 1..Len(runs) : Close(i)
    \/ \E i \in 1..Len(runs) : Read(i)
    \/ \E i \in 1..Len(runs) : Finish(i)

SpecAnalyze == InitAnalyze /\ [][NextAnalyze]_vars

\* C2: at most one extractor process is running at any time.  The processes
\* counted here are those that run and that no kill() has signalled, so the
\* count is at most the number of running processes of the claim.
C2_AtMostOneProcess ==
    Cardinality({p \in 1..Len(processes) :
                    processes[p].alive /\ ~processes[p].killed}) <= 1

\* the model a first, uncancelled run leaves: merged, and annotated at its end
MergedProject == Resolve(orm, EmptyModel, MoveMessages).model
FirstRunFinished ==
    /\ Len(runs) >= 2
    /\ runs[1].at = "finished" /\ runs[1].ok /\ ~runs[1].isCancellationRequested

\* the second run's process was spawned, ended with a non-zero status, and the
\* run has reported the failure
SecondRunFailed ==
    /\ Len(runs) = 2
    /\ runs[2].process # 0
    /\ processes[runs[2].process].code = Failed
    /\ runs[2].at \in {"resolved", "finished"} /\ ~runs[2].ok

\* C13: when the extractor process ends with a non-zero exit status, the run
\* reports failure and both groups contain exactly what they contained before
\* the run was requested (here: what the finished first run had put there), the
\* model being neither cleared nor partially merged.
C13_FailedRunKeepsModel ==
    (FirstRunFinished /\ SecondRunFailed) =>
        \/ ModelIs(MergedProject)
        \/ ModelIs(AutoAnnotateEach(MergedProject, supportedTagsOf(orm)))

\* C3: a run that cancel() was called in adds nothing to the model: the steps
\* of its 'close' handler leave the two groups as they are, wherever the
\* cancel() came relative to the process exit and to the reading of the output.
C3_CancelledRunLeavesModel ==
    [][\A i \in 1..Len(runs) :
          (runs[i].isCancellationRequested /\ (Close(i) \/ Read(i)))
              => UNCHANGED modelVars]_vars

-----------------------------------------------------------------------------
(* Specification SpecTerminate: the runs when the output may fail to be read *)

\* the 'close' handler after `await readFile` when readFile rejects or
\* JSON.parse throws: the handler ends there, before resolve() and before
\* `this.proc = null`
ReadFails(i) ==
    /\ runs[i].at = "reading"
    /\ runs' = [runs EXCEPT ![i].at = "threw"]
    /\ UNCHANGED <<modelVars, orm, messages, proc, processes, file, writes, steps>>

NextTerminate ==
    \/ RunAnalyzer
    \/ Exit
    \/ \E i \in 1..Len(runs) : Cancel(i)
    \/ \E i \in 1..Len(runs) : Close(i)
    \/ \E i \in 1..Len(runs) : Read(i)
    \/ \E i \in 1..Len(runs) : ReadFails(i)
    \/ \E i \in 1..Len(runs) : Finish(i)

\* the event loop runs every handler that is due: the 'close' handler of a
\* process that has ended, and its continuation once readFile has settled,
\* either way. ReadFails(i) is enabled exactly when Read(i) is and each of the
\* two steps disables both, so the weak fairness of ReadFails(i) says no more
\* than that the await settles: a run does not stay at "reading" for ever.
SpecTerminate ==
    /\ InitAnalyze
    /\ [][NextTerminate]_vars
    /\ \A i \in 1..MaxRuns :
          /\ WF_vars(i <= Len(runs) /\ Close(i))
          /\ WF_vars(i <= Len(runs) /\ ReadFails(i))

\* the process of the i-th run has closed
Closed(i) ==
    /\ i <= Len(runs)
    /\ runs[i].process # 0
    /\ ~processes[runs[i].process].alive

\* C30: every analysis run terminates and frees the analyzer: after the
\* extractor process has closed, the promise returned by analyze() is
\* eventually resolved and the process is no longer the tracked one, also when
\* the exit status is non-zero, when the run was cancelled, and when reading
\* or parsing the extractor output fails.
C30_RunResolvesAndFrees ==
    \A i \in 1..MaxRuns :
        [](Closed(i) => <>(/\ i <= Len(runs)
                           /\ runs[i].at \in {"resolved", "finished"}
                           /\ proc # runs[i].process))

-----------------------------------------------------------------------------
(* Specification SpecCurate: adding, moving and removing items by command *)

MaxEntities == 4

Moved == <<"[", "moved", "]">>

\* the names typed in the input box of splinter.entity.add
TypedNames == {<<"Custom">>, <<"x">>}

\* splinter.entity.add, without a selection: a name that the Recognized group
\* holds already is refused with an error message
EntityAdd ==
    /\ Len(entityHeap) < MaxEntities
    /\ \E name \in TypedNames :
          /\ ~MapHas(group[Recognized], name)
          /\ SetModelAndSave(SetNewEntity(Model, Recognized,
                                          Entity(UndefinedSelection, name, TRUE)))
    /\ UNCHANGED <<orm, messages, proc, processes, runs, writes, steps>>

\* const moveEntity = async (item, from, to) for an entity item
moveEntity(M, name, from, to) ==
    IF MapHas(M.group[from], name)
    THEN LET e == MapGet(M.group[from], name)
         IN [M EXCEPT !.group = [@ EXCEPT ![from] = MapDelete(@, M.entityHeap[e].name),
                                         ![to] = MapSet(@, M.entityHeap[e].name, e)]]
    ELSE M

\* splinter.entity.moveToUnknown on one entity item of the Recognized view
EntityMoveToUnknown ==
    /\ \E e \in Range(MapValues(group[Recognized])) :
          SetModelAndSave(moveEntity(Model, entityHeap[e].name, Recognized, Unknown))
    /\ UNCHANGED <<orm, messages, proc, processes, runs, writes, steps>>

\* splinter.entity.moveToRecognized on one entity item of the Unknown view
EntityMoveToRecognized ==
    /\ \E e \in Range(MapValues(group[Unknown])) :
          SetModelAndSave(moveEntity(Model, entityHeap[e].name, Unknown, Recognized))
    /\ UNCHANGED <<orm, messages, proc, processes, runs, writes, steps>>

\* splinter.operation.moveToUnknown on one operation item of the Recognized
\* view: the target is the entity "[moved]" of the Unknown group, made if needed
OperationMoveToUnknown ==
    /\ \E r \in {q \in OperationRefs : q.g = Recognized} :
          \E made \in {IF MapHas(group[Unknown], Moved) THEN Model
                        ELSE SetNewEntity(Model, Unknown,
                                          Entity(UndefinedSelection, Moved, TRUE))} :
          \E moved \in {moveOperations(made, Recognized, MapGet(made.group[Unknown], Moved),
                                       <<LocatorOf(operationHeap[OperationAt(Model, r)])>>)} :
             /\ Len(made.entityHeap) <= MaxEntities
             /\ WithinBounds(moved)
             /\ SetModelAndSave(moved)
    /\ UNCHANGED <<orm, messages, proc, processes, runs, writes, steps>>

\* splinter.item.remove on an item of the Recognized view whose context value
\* holds "custom" (package.json, menus): an entity, an operation or an argument
ItemRemove ==
    /\ \/ \E e \in Range(MapValues(group[Recognized])) :
             /\ entityHeap[e].isCustom
             /\ SetModelAndSave([Model EXCEPT
                    !.group[Recognized] = MapDelete(@, entityHeap[e].name)])
       \/ \E r \in {q \in OperationRefs : q.g = Recognized} :
             /\ operationHeap[OperationAt(Model, r)].isCustom
             /\ SetModelAndSave([Model EXCEPT
                    !.entityHeap[r.e].operations = Splice(@, r.i - 1)])
       \/ \E r \in {q \in OperationRefs : q.g = Recognized} :
             \E j \in 1..Len(operationHeap[OperationAt(Model, r)].arguments) :
                /\ argumentHeap[operationHeap[OperationAt(Model, r)].arguments[j]].isCustom
                /\ SetModelAndSave([Model EXCEPT
                       !.operationHeap[OperationAt(Model, r)].arguments = Splice(@, j - 1)])
    /\ UNCHANGED <<orm, messages, proc, processes, runs, writes, steps>>

\* one custom operation and one custom argument at most are added
MaxCustom == 1
CustomOperationAdd ==
    /\ Cardinality({o \in 1..Len(operationHeap) : operationHeap[o].isCustom}) < MaxCustom
    /\ OperationAdd
CustomArgumentAdd ==
    /\ Cardinality({a \in 1..Len(argumentHeap) : argumentHeap[a].isCustom}) < MaxCustom
    /\ ArgumentAdd

NextCurate ==
    \/ EntityAdd
    \/ CustomOperationAdd
    \/ CustomArgumentAdd
    \/ EntityMoveToUnknown
    \/ EntityMoveToRecognized
    \/ OperationMoveToUnknown
    \/ ItemRemove

SpecCurate == InitMove /\ [][NextCurate]_vars

\* the items of the model that the extractor produced
ExtractedEntities == {e \in EntitiesOf(Model) : ~entityHeap[e].isCustom}
ExtractedOperations == {o \in HeldOperations(Model) : ~operationHeap[o].isCustom}
ExtractedArguments ==
    {ArgumentAt(Model, r) : r \in {q \in ArgumentRefsOf(Model) :
                                      ~argumentHeap[ArgumentAt(Model, q)].isCustom}}

\* C18: splinter.item.remove never deletes an entity, an operation or an
\* argument whose isCustom is false: every such item of the model before the
\* command is an item of the model after it.
C18_RemoveKeepsExtractedItems ==
    [][ItemRemove => /\ ExtractedEntities \subseteq ExtractedEntities'
                     /\ ExtractedOperations \subseteq ExtractedOperations'
                     /\ ExtractedArguments \subseteq ExtractedArguments']_vars

\* C19: the entity names are unique within each group, and no name is a key of
\* both groups.
C19_NamesUniqueAcrossGroups ==
    /\ \A g \in GroupNames : \A i, j \in 1..Len(group[g]) :
          entityHeap[group[g][i].value].name = entityHeap[group[g][j].value].name => i = j
    /\ \A i \in 1..Len(group[Recognized]) : ~MapHas(group[Unknown], group[Recognized][i].key)

-----------------------------------------------------------------------------
(* Specification SpecRecognize: splinter.recognizeUnknownAggressively *)

\* String.prototype.startsWith(t)
startsWith(s, t) == Len(s) >= Len(t) /\ SubSeq(s, 1, Len(t)) = t

\* toLowerCase() of a capitalised word
LowerCase(atom) ==
    CASE atom = "Foo" -> "foo"
      [] atom = "Bar" -> "bar"
      [] OTHER -> atom

\* name.split(/(?=[A-Z])/).join('_').toLowerCase(): the atoms of an entity
\* name are its capitalised words
RECURSIVE SnakeCase(_)
SnakeCase(name) ==
    IF name = <<>> THEN <<>>
    ELSE IF Len(name) = 1 THEN <<LowerCase(name[1])>>
    ELSE <<LowerCase(name[1]), "_">> \o SnakeCase(Tail(name))

\* nameSnakeCase + "s"
PluralAtom(atom) ==
    CASE atom = "foo" -> "foos"
      [] atom = "bar" -> "bars"
      [] OTHER -> atom
Plural(snake) == SubSeq(snake, 1, Len(snake) - 1) \o <<PluralAtom(snake[Len(snake)])>>

\* the subsequence of s at the indexes of the set
RECURSIVE Pick(_, _)
Pick(s, indexes) ==
    IF s = <<>> THEN <<>>
    ELSE (IF Len(s) \in indexes THEN Pick(SubSeq(s, 1, Len(s) - 1), indexes) \o <<s[Len(s)]>>
          ELSE Pick(SubSeq(s, 1, Len(s) - 1), indexes))

\* django.ts 471-480: the operations of the Unknown group, entity by entity
UnknownOperations(M) ==
    Flatten([k \in 1..Len(getGroup(M, Unknown)) |->
                M.entityHeap[getGroup(M, Unknown)[k].value].operations])

\* DjangoAnalyzer.recognizeUnknownAggressively(): for every base name that one
\* entity has, the Unknown operations named after it, and those named after its
\* snake-case form or the plural of that
RECURSIVE RecognizeEach(_, _)
RecognizeEach(M, baseEntityNames) ==
    IF baseEntityNames = <<>> THEN <<>>
    ELSE LET name == Head(baseEntityNames).key
             fullEntityName == Head(baseEntityNames).value
             snake == SnakeCase(name)
             exactly(o) == \/ M.operationHeap[o].name = name
                           \/ startsWith(M.operationHeap[o].name, name \o <<".">>)
             snakes(o) == /\ ~exactly(o)
                          /\ \/ M.operationHeap[o].name = snake
                             \/ startsWith(M.operationHeap[o].name, snake \o <<".">>)
                             \/ M.operationHeap[o].name = Plural(snake)
                             \/ startsWith(M.operationHeap[o].name, Plural(snake) \o <<".">>)
             moveableOperationsExact == SelectSeq(UnknownOperations(M), exactly)
             moveableOperationsSnake == SelectSeq(UnknownOperations(M), snakes)
             entity == MapGet(getGroup(M, Recognized), fullEntityName.v)
         IN IF ~fullEntityName.def THEN RecognizeEach(M, Tail(baseEntityNames))
            ELSE (IF moveableOperationsExact = <<>> THEN <<>>
                  ELSE <<[entity |-> entity, operations |-> moveableOperationsExact]>>)
                 \o (IF moveableOperationsSnake = <<>> THEN <<>>
                     ELSE <<[entity |-> entity, operations |-> moveableOperationsSnake]>>)
                 \o RecognizeEach(M, Tail(baseEntityNames))

recognizeUnknownAggressively(M) ==
    RecognizeEach(M, getBaseEntityNames(getGroup(M, Recognized)))

\* extractor output: one model, and calls on receivers the resolver knows no
\* type of
Receivers == {<<"Foo", ".", "objects">>, <<"foo">>, <<"foos">>, <<"x">>}
ReceiverCall(receiver, line) ==
    Message(SourceFile, line, line, 2, 9,
            MethodContent(<<"all">>, "read", receiver, <<<<"x">>>>, <<>>))
RecognizeProjects ==
    {<<Message(ModelsFile, 3, 4, 0, 1, ModelContent(AppFoo))>>
        \o [i \in 1..Len(receivers) |-> ReceiverCall(receivers[i], 10 + i)] :
     receivers \in UNION {[1..n -> Receivers] : n \in 1..MaxOperations - 1}}

InitRecognize ==
    /\ messages \in RecognizeProjects
    /\ ModelIs(Resolve("django", EmptyModel, messages).model)
    /\ orm = "django"
    /\ writes = <<>> /\ steps = <<>>
    /\ proc = 0 /\ processes = <<>> /\ runs = <<>>
    /\ file = saveToStorage(Resolve("django", EmptyModel, messages).model)

\* the command up to its first quick pick: the steps are computed once
RecognizeStart ==
    /\ steps = <<>>
    /\ recognizeUnknownAggressively(Model) # <<>>
    /\ steps' = recognizeUnknownAggressively(Model)
    /\ UNCHANGED <<modelVars, orm, messages, proc, processes, runs, file, writes>>

\* the locators of all the items of the step, whatever is ticked
ConfirmedAll(M, step, ticked) ==
    [i \in 1..Len(step.operations) |-> LocatorOf(M.operationHeap[step.operations[i]])]

\* selected.map((item) => item.locator): the locators of the ticked items
Confirmed(M, step, ticked) ==
    LET picked == Pick(step.operations, ticked)
    IN [i \in 1..Len(picked) |-> LocatorOf(M.operationHeap[picked[i]])]

\* one step of the command: the quick pick is accepted with the ticked items,
\* they are moved out of the Unknown group, and the result is saved
RecognizeStepWith(ticked) ==
    /\ steps # <<>>
    /\ SetModelAndSave(moveOperations(Model, Unknown, Head(steps).entity,
                                      Confirmed(Model, Head(steps), ticked)))
    /\ steps' = Tail(steps)
    /\ UNCHANGED <<orm, messages, proc, processes, runs, writes>>

RecognizeStep ==
    \E ticked \in SUBSET (1..MaxOperations) :
        /\ steps # <<>>
        /\ ticked \subseteq 1..Len(Head(steps).operations)
        /\ RecognizeStepWith(ticked)

\* the quick pick is dismissed: `break`
RecognizeDismiss ==
    /\ steps # <<>>
    /\ steps' = <<>>
    /\ UNCHANGED <<modelVars, orm, messages, proc, processes, runs, file, writes>>

NextRecognize == RecognizeStart \/ RecognizeStep \/ RecognizeDismiss

SpecRecognize == InitRecognize /\ [][NextRecognize]_vars

\* where every operation of the model is held
ParentsOf(M) ==
    [o \in 1..Len(M.operationHeap) |->
        {r.e : r \in {q \in OperationRefsOf(M) : OperationAt(M, q) = o}}]

\* C21: recognizeUnknownAggressively never mutates the classified model (the
\* groups, the operations lists and the notes are after the call what they
\* were before it), and an operation changes its parent only in a step whose
\* quick pick was accepted with locators ticked.
C21_GeneratorLeavesModel ==
    [][/\ RecognizeStart => UNCHANGED <<modelVars, file>>
       /\ RecognizeStepWith({}) => UNCHANGED modelVars
       /\ ParentsOf(Model)' # ParentsOf(Model)
             => \E ticked \in SUBSET (1..MaxOperations) :
                   ticked # {} /\ RecognizeStepWith(ticked)]_vars

\* steps were proposed, and an operation is in the entity a step proposed it
\* for, while another step is still to be answered
C21_Witness ==
    /\ steps # <<>>
    /\ \E r \in OperationRefs :
          /\ r.g = Recognized
          /\ startsWith(operationHeap[OperationAt(Model, r)].name, <<"foo">>)

\* the places of the model M that hold the operation o
PlacesOf(M, o) == {r \in OperationRefsOf(M) : OperationAt(M, r) = o}

\* C29: moving an entity between the groups (moveToUnknown, moveToRecognized)
\* preserves the operations of the model: every operation held by some entity
\* of either group before the move is held by exactly one entity after it, also
\* when the destination group already has an entity of the same name.
C29_MoveEntityKeepsOperations ==
    \A from \in GroupNames : \A e \in Range(MapValues(group[from])) :
        LET to == IF from = Recognized THEN Unknown ELSE Recognized
            after == moveEntity(Model, entityHeap[e].name, from, to)
        IN \A o \in HeldOperations(Model) : Cardinality(PlacesOf(after, o)) = 1

-----------------------------------------------------------------------------
(* Specification SpecFullScan: the full-scan rule on a model that is edited *)

\* extractor output: one model, an unqualified fetch and a filter on its manager
FullScanMessages ==
    <<Message(ModelsFile, 3, 4, 0, 1, ModelContent(AppFoo)),
      Message(SourceFile, 7, 7, 2, 9,
              MethodContent(<<"all">>, "read", <<"Foo", ".", "objects">>,
                            <<ManagerOf(AppFoo)>>, <<>>)),
      Message(SourceFile, 11, 11, 2, 9,
              MethodContent(<<"filter">>, "read", <<"Foo", ".", "objects">>,
                            <<ManagerOf(AppFoo)>>, <<Attribute(<<"a">>, 11, 4, 11, 5)>>))>>

\* the project resolved and saved, no rule run yet
InitFullScan ==
    /\ messages = FullScanMessages
    /\ ModelIs(Resolve("django", EmptyModel, messages).model)
    /\ orm = "django"
    /\ writes = <<>> /\ steps = <<>>
    /\ proc = 0 /\ processes = <<>> /\ runs = <<>>
    /\ file = saveToStorage(Resolve("django", EmptyModel, messages).model)

\* splinter.autoAnnotate with the tag full-scan picked
AutoAnnotateFullScan == AutoAnnotateOne(FULL_SCAN)

NextFullScan ==
    \/ AutoAnnotateFullScan
    \/ OperationMoveToUnknown
    \/ EntityMoveToUnknown
    \/ EntityMoveToRecognized

SpecFullScan == InitFullScan /\ [][NextFullScan]_vars

\* C24: after the full-scan rule has run, a Recognized entity without a plain
\* full-scan tag added by hand carries full-scan(a) if and only if one of its
\* current operations has a name ending in ".all", also when the rule runs
\* again after operations were moved out of the entity.
C24_FullScanIffFetchAll ==
    [][AutoAnnotateFullScan =>
          \A e \in Range(RecognizedEntities(Model)') :
              ~HasPlain(entityHeap'[e].note, FULL_SCAN)
                  => (includes(entityHeap'[e].note, AutoTag(FULL_SCAN)) <=> hasFullScan(Model', e))]_vars

-----------------------------------------------------------------------------
(* Specification SpecSignature: the CDA rule on entities with a typed signature *)

\* the notes typed in the input box of splinter.item.editNote: a signature the
\* projects' best path agrees with, and one it does not
TypedSignatures == {<<"cda[", "a", "]">>, <<"cda[", "z", "]">>}

\* splinter.item.editNote on one entity item: the typed note takes the place of
\* the note
EditNote ==
    /\ file.exists
    /\ \E e \in Entities : \E note \in TypedSignatures :
          SetModelAndSave([Model EXCEPT !.entityHeap[e].note = note])
    /\ UNCHANGED <<orm, messages, proc, processes, runs, writes, steps>>

\* splinter.autoAnnotate with the tag cda-tran picked
AutoAnnotateCdaTran == AutoAnnotateOne(CDA_TRAN)

InitSignature ==
    /\ messages \in SmallProjects
    /\ ModelIs(Resolve("django", EmptyModel, messages).model)
    /\ orm = "django"
    /\ writes = <<>> /\ steps = <<>>
    /\ proc = 0 /\ processes = <<>> /\ runs = <<>>
    /\ file = saveToStorage(Resolve("django", EmptyModel, messages).model)

NextSignature == EditNote \/ AutoAnnotateCdaTran \/ ClearNote

SpecSignature == InitSignature /\ [][NextSignature]_vars

\* part_013 209-218: the rule writes "Double-check cda list that was manually
\* added for ..." in the turn of the entity e. bestCda is the last key of the
\* best path (undefined for an empty path); the line is written under
\* `if (bestCda)`, in the branch of a note that includes "cda[", when
\* bestCda.length === 0
DoubleCheckCdaList(M, e) ==
    LET bestPath == BestPathOf(M, e).path
    IN /\ bestPath # <<>>
       /\ bestPath[Len(bestPath)] # <<>>
       /\ includes(M.entityHeap[e].note, <<"cda[">>)
       /\ Len(bestPath[Len(bestPath)]) = 0

\* the recomputed best path disagrees with the typed signature: there is a
\* path, and the note does not hold cda[...] of its largest column set
Disagrees(M, e) ==
    LET bestPath == BestPathOf(M, e).path
    IN /\ bestPath # <<>>
       /\ ~includes(M.entityHeap[e].note,
                    <<"cda[">> \o bestPath[Len(bestPath)] \o <<"]">>)

\* C25: for a Recognized entity whose note is a typed CDA signature, the CDA
\* rule leaves the entity's note as it is, and it emits the double-check
\* diagnostic for the entity when, and only when, the recomputed best path
\* disagrees with the signature.
C25_SignatureKeptAndDoubleChecked ==
    \A e \in Range(RecognizedEntities(Model)) :
        entityHeap[e].note \in TypedSignatures
            => /\ autoAnnotateCdaTran(Model).entityHeap[e].note = entityHeap[e].note
               /\ DoubleCheckCdaList(Model, e) <=> Disagrees(Model, e)

-----------------------------------------------------------------------------
(* Specification SpecGeneralize: the two versions of the CDA rule *)

\* the calls of the projects: filters on one column, on two columns, a range
\* on one column, a filter on another column, and an unqualified fetch
PairKinds ==
    {<<<<"a">>>>, <<<<"a">>, <<"b">>>>, <<<<"a", "__", "gt">>, <<"a", "__", "lt">>>>,
     <<<<"c">>>>, <<>>}
PairProjects ==
    {ProjectMessages(kinds) : kinds \in UNION {[1..n -> PairKinds] : n \in 1..MaxCalls}}

InitGeneralize ==
    /\ ModelIs(EmptyModel)
    /\ orm = "django"
    /\ writes = <<>> /\ steps = <<>>
    /\ messages = <<>>
    /\ Idle

\* the close handler's merge of the extractor output of one of the projects
ResolveProject ==
    /\ messages = <<>>
    /\ \E msgs \in PairProjects :
          /\ SetModel(Resolve(orm, Model, msgs).model)
          /\ messages' = msgs
    /\ UNCHANGED <<orm, proc, processes, runs, file, writes, steps>>

NextGeneralize ==
    \/ ResolveProject
    \/ messages # <<>> /\ AnnotateAnalyzed
    \/ AutoAnnotateCdaTran
    \/ ClearAutoAnnotate

SpecGeneralize == InitGeneralize /\ [][NextGeneralize]_vars

\* part_013 270-281 (pairwise version): the shorter list is covered when each
\* of its columns is in the longer one; of two lists of one length, the second
\* is the one looked up in the first
covers(bigger, smaller) ==
    LET b == IF Len(bigger) < Len(smaller) THEN smaller ELSE bigger
        s == IF Len(bigger) < Len(smaller) THEN bigger ELSE smaller
    IN \A i \in 1..Len(s) : s[i] \in Range(b)

\* part_013 286-299 (pairwise version): the non-empty column lists of the
\* entity's operations, one per operation, repeated columns kept
ColumnLists(M, e) ==
    LET operations == M.entityHeap[e].operations
    IN SelectSeq([i \in 1..Len(operations) |-> getCda(M, operations[i])],
                 LAMBDA cda : cda # <<>>)

\* part_013 300-318 (pairwise version): the entity gets cda-tran(a) when its
\* note does not include cda-tran and some list does not cover another
PairwiseCdaTran(M, e) ==
    LET cdas == ColumnLists(M, e)
    IN /\ ~includes(M.entityHeap[e].note, CDA_TRAN)
       /\ \E i, j \in 1..Len(cdas) : i # j /\ ~covers(cdas[i], cdas[j])

\* the containment-forest version tags some operation of the entity
ForestCdaTran(M, e) ==
    \E o \in Range(M.entityHeap[e].operations) :
        includes(autoAnnotateCdaTran(M).operationHeap[o].note, AutoTag(CDA_TRAN))

\* no note of the entity or of its operations holds a CDA tag
NoCdaTags(M, e) ==
    /\ ~includes(M.entityHeap[e].note, CDA_TRAN)
    /\ ~includes(M.entityHeap[e].note, <<"cda[">>)
    /\ \A o \in Range(M.entityHeap[e].operations) :
          /\ ~includes(M.operationHeap[o].note, CDA_TRAN)
          /\ ~includes(M.operationHeap[o].note, <<"cda[">>)

\* C26: the containment-forest version generalizes the pairwise version: for
\* a Recognized entity without CDA tags, whenever the pairwise check flags the
\* entity with cda-tran(a), the forest version tags at least one of the
\* entity's operations with cda-tran(a).
C26_ForestGeneralizesPairwise ==
    \A e \in Range(RecognizedEntities(Model)) :
        NoCdaTags(Model, e) /\ PairwiseCdaTran(Model, e) => ForestCdaTran(Model, e)

-----------------------------------------------------------------------------
(* Specification SpecSave: editing commands whose writes are not awaited *)

\* the writeFile calls that may be pending at once
MaxWrites == 2
\* the entities a model of this specification holds, "[moved]" included
MaxSaveEntities == 3

\* the project of this specification: one model and one call on its manager,
\* resolved, annotated and saved
SavedProject == AutoAnnotateEach(Resolve("django", EmptyModel, SubSeq(MoveMessages, 1, 2)).model,
                                 supportedAutoAnnotateTags)
InitSave ==
    /\ ModelIs(SavedProject)
    /\ orm = "django"
    /\ writes = <<>> /\ steps = <<>>
    /\ messages = SubSeq(MoveMessages, 1, 2)
    /\ proc = 0
    /\ processes = <<>>
    /\ runs = <<>>
    /\ file = saveToStorage(SavedProject)

\* a change of the model followed by analyzeResult.saveToStorage() that the
\* handler does not await: JSON.stringify runs in the call, the buffer is handed
\* to vscode.workspace.fs.writeFile and the handler returns
SetModelAndWrite(M) ==
    \E m \in {M} :
        /\ Len(writes) < MaxWrites
        /\ SetModel(m)
        /\ writes' = Append(writes, stringify(m))
        /\ file' = file

\* splinter.entity.moveToUnknown on one entity item of the Recognized view
EntityMoveToUnknownWrite ==
    /\ \E e \in Range(MapValues(group[Recognized])) :
          SetModelAndWrite(moveEntity(Model, entityHeap[e].name, Recognized, Unknown))
    /\ UNCHANGED <<orm, messages, proc, processes, runs, steps>>

\* splinter.entity.moveToRecognized on one entity item of the Unknown view
EntityMoveToRecognizedWrite ==
    /\ \E e \in Range(MapValues(group[Unknown])) :
          SetModelAndWrite(moveEntity(Model, entityHeap[e].name, Unknown, Recognized))
    /\ UNCHANGED <<orm, messages, proc, processes, runs, steps>>

\* splinter.operation.moveToUnknown on one operation item of the Recognized view
OperationMoveToUnknownWrite ==
    /\ \E r \in {q \in OperationRefs : q.g = Recognized} :
          \E made \in {IF MapHas(group[Unknown], Moved) THEN Model
                        ELSE SetNewEntity(Model, Unknown,
                                          Entity(UndefinedSelection, Moved, TRUE))} :
          \E moved \in {moveOperations(made, Recognized, MapGet(made.group[Unknown], Moved),
                                       <<LocatorOf(operationHeap[OperationAt(Model, r)])>>)} :
             /\ Len(made.entityHeap) <= MaxSaveEntities
             /\ WithinBounds(moved)
             /\ SetModelAndWrite(moved)
    /\ UNCHANGED <<orm, messages, proc, processes, runs, steps>>

\* the s without its i-th element
RemoveAt(s, i) == SubSeq(s, 1, i - 1) \o SubSeq(s, i + 1, Len(s))

\* one pending writeFile completes: the whole buffer takes the place of the
\* file's content. Nothing in the handlers orders the pending writes.
WriteFileCompletes ==
    /\ \E i \in 1..Len(writes) :
          /\ file' = [exists |-> TRUE, text |-> writes[i]]
          /\ writes' = RemoveAt(writes, i)
    /\ UNCHANGED <<modelVars, orm, messages, proc, processes, runs, steps>>

NextSave ==
    \/ EntityMoveToUnknownWrite
    \/ EntityMoveToRecognizedWrite
    \/ OperationMoveToUnknownWrite
    \/ WriteFileCompletes

SpecSave == InitSave /\ [][NextSave]_vars

\* C22: once no write is in flight, the persisted file holds the serialization
\* of the model as of the most recent saveToStorage call (every command of this
\* specification ends with that call), never an older snapshot.
C22_FileHoldsLatestModel == writes = <<>> => file = saveToStorage(Model)

-----------------------------------------------------------------------------
(* Specification SpecLoad: activation on a workspace and its persisted result *)

\* the result file an earlier session left in .vscode: none, the saved result
\* of a finished analysis, or a file cut short
PersistedFiles ==
    {NoFile, DamagedFile,
     saveToStorage(AutoAnnotateEach(Resolve(orm, EmptyModel, MoveMessages).model,
                                    supportedTagsOf(orm)))}

InitLoad ==
    /\ ModelIs(EmptyModel)
    /\ orm \in {"django", "typeorm"}
    /\ writes = <<>> /\ steps = <<>>
    /\ messages = <<>>
    /\ proc = 0 /\ processes = <<>> /\ runs = <<>>
    /\ file \in PersistedFiles

\* activate() calls runAnalyzer: clear(), then loadFromStorage(); a loaded
\* result ends the run, a missing file makes it call analyze(), and an
\* exception of loadFromStorage ends the progress callback where it is thrown
Activate ==
    /\ runs = <<>>
    /\ \E stored \in {loadFromStorage(clear(Model), file)} :
          /\ SetModel(stored.model)
          /\ IF stored.threw
             THEN /\ runs' = <<Run(0, "threw")>>
                  /\ UNCHANGED <<proc, processes>>
             ELSE IF stored.loaded
             THEN /\ runs' = <<Run(0, "loaded")>>
                  /\ UNCHANGED <<proc, processes>>
             ELSE /\ processes' = Append(processes, Process)
                  /\ proc' = Len(processes) + 1
                  /\ runs' = <<Run(Len(processes) + 1, "waiting")>>
    /\ UNCHANGED <<orm, messages, file, writes, steps>>

\* the commands are registered after the first runAnalyzer call
NextLoad ==
    \/ Activate
    \/ runs # <<>> /\ RunAnalyzer
    \/ runs # <<>> /\ Exit
    \/ \E i \in 1..Len(runs) : Cancel(i)
    \/ \E i \in 1..Len(runs) : Close(i)
    \/ \E i \in 1..Len(runs) : Read(i)
    \/ \E i \in 1..Len(runs) : Finish(i)

SpecLoad == InitLoad /\ [][NextLoad]_vars

\* C14: when the persisted result file is missing or its content cannot be
\* parsed, the first runAnalyzer loads nothing and starts a fresh analysis (it
\* spawns the extractor and waits for it), and no error is raised out of the run.
C14_MissingOrUnparsableStartsAnalysis ==
    [][(Activate /\ (~file.exists \/ file.text = Truncated))
          => /\ ModelIs(EmptyModel)'
             /\ runs'[1].at = "waiting"
             /\ runs'[1].process # 0 /\ processes'[runs'[1].process].alive]_vars

\* C23: a run spawns the extractor if and only if it loaded no persisted
\* result: a run that found the results file populated the model from it and
\* spawned nothing, every other run (the first, or one after Reanalyze deleted
\* the file) spawned the extractor.
C23_ExtractorIffNothingLoaded ==
    \A i \in 1..Len(runs) : (runs[i].process # 0) <=> (runs[i].at # "loaded")


====
